---- MODULE Spec2Model ----
(***************************************************************************)
(* rjobs: an ActiveJob-like job framework for Node.js.                     *)
(*                                                                         *)
(* The model covers BaseJob (performNow and its lifecycle hooks, the       *)
(* class-level performLater / performIn / performAt and set), the adapter  *)
(* factory (getAdapter, closeAdapters), the inline adapter, the redis      *)
(* adapter (enqueue, its cache of Queues, close), the configuration        *)
(* singleton and the worker (registerJob, processJob, startWorker,         *)
(* stopWorkers).  Every await of the source is a step                      *)
(* boundary: a call frame sits at the hook (or timer, or broker round      *)
(* trip) it is awaiting.  The broker and its Worker are BullMQ's; they     *)
(* are modelled by their contract: an item is waiting, delayed, active,    *)
(* completed or failed, a rejected processor is a failed attempt, and      *)
(* close() waits for the jobs in flight.  Objects that the source shares   *)
(* by reference (the redis settings of defaultConfig) are state of their   *)
(* own.  SpecLive adds the fairness under which progress is claimed.       *)
(***************************************************************************)
EXTENDS Integers, Sequences, FiniteSets, TLC

\* ------------------------------------------------------------------ bounds

\* Longest argument list given to a job.
MaxArgs == 2
\* The clock runs from 0 to MaxTime (milliseconds, abstractly).
MaxTime == 2
\* Largest delay given to performIn, and how far past MaxTime a performAt
\* timestamp may lie.
MaxDelay == 2

\* At most this many adapters of one kind are ever constructed.
MaxInstances == 3

\* At most this many close() / closeAdapters() calls are made.
MaxCloses == 2

\* ------------------------------------------------------------ value spaces

\* A nullable value is a sequence: <<>> is null / undefined, <<v>> is v.
Nothing == <<>>
Just(v) == <<v>>

\* a ?? b
Nullish(a, b) == IF a = Nothing THEN b ELSE a[1]

\* Math.max(a, b)
MathMax(a, b) == IF a >= b THEN a ELSE b

ArgValues == {"zeon", "x"}

ArgLists == UNION {[1..n -> ArgValues] : n \in 0..MaxArgs}

\* The argument lists the class-level calls are made with.
CallArgs == {<<>>, <<"x", "zeon">>}

\* The call contexts (async call chains) of the application.
Calls == {1, 2}

OptionalHooks == {"beforePerform", "afterPerform", "onError"}

\* ------------------------------------------------------------- job classes

\* A job class: its static fields, the optional hooks it defines and where
\* its perform comes from ("inherited" is BaseJob.perform).
JobClass(n, q, ra, bd, hs, p) ==
    [name |-> n, queue |-> q, retryAttempts |-> ra, backoffDelay |-> bd,
     hooks |-> hs, perform |-> p, filePath |-> Nothing]

\* BaseJob's own static fields: queue 'default', retryAttempts and
\* backoffDelay null; no hook is defined and perform is the abstract one.
BaseJob == JobClass("BaseJob", "default", Nothing, Nothing, {}, "inherited")

\* The demo app's job C: class C extends BaseJob { perform(name = 'world') }
C == JobClass("C", "default", Nothing, Nothing, {}, "C")

\* The example job SendEmailJob: its own queue, retry settings and all hooks.
SendEmailJob ==
    JobClass("SendEmailJob", "mailers", Just(5), Just(2000), OptionalHooks, "user")

\* The usage example's FailingJob: perform always raises, onError defined.
FailingJob ==
    JobClass("FailingJob", "default", Just(3), Just(500), {"onError"}, "FailingJob")

\* Every shape of job definition: each hook independently present or absent,
\* perform overridden or not.
AnyJobs ==
    {JobClass("Job", "default", Nothing, Nothing, hs, p) :
        hs \in SUBSET OptionalHooks, p \in {"inherited", "user"}}

ExampleJobs == {C, SendEmailJob, FailingJob}

\* The usage example's ProcessDataJob, and the class of the same name that
\* the worker runner defines (its perform is another one).
ProcessDataJob ==
    JobClass("ProcessDataJob", "default", Nothing, Nothing, {}, "ProcessDataJob")

RunnerProcessDataJob ==
    JobClass("ProcessDataJob", "default", Nothing, Nothing, {},
             "RunnerProcessDataJob")

\* A class the enqueueing process defines and the worker process never
\* registers.
Ghost == JobClass("Ghost", "default", Just(2), Nothing, {}, "user")

\* The class of that name as the application defines it.
Defined(n) == CHOOSE D \in ExampleJobs : D.name = n

NoJob == JobClass("", "", Nothing, Nothing, {}, "inherited")

\* (variant: the abstract perform returns undefined instead of raising)
PerformResultsAbstractReturns(D, a) ==
    CASE D.perform = "C" ->
             {<<"greeted", IF Len(a) >= 1 THEN a[1] ELSE "world">>}
      [] D.perform = "user" -> {<<"done">> \o a, <<"other">>}
      [] D.perform = "ProcessDataJob" -> {<<"processed">> \o a}
      [] D.perform = "RunnerProcessDataJob" -> {<<"processed">>}
      [] D.perform = "inherited" -> {<<>>}
      [] OTHER -> {}

\* What a perform body can do: the values it can return ...
PerformResults(D, a) ==
    CASE D.perform = "C" ->
             {<<"greeted", IF Len(a) >= 1 THEN a[1] ELSE "world">>}
      [] D.perform = "user" -> {<<"done">> \o a, <<"other">>}
      [] D.perform = "ProcessDataJob" -> {<<"processed">> \o a}
      [] D.perform = "RunnerProcessDataJob" -> {<<"processed">>}
      [] OTHER -> {}

\* ... and the errors it can raise.
PerformErrors(D) ==
    CASE D.perform = "inherited" ->
             {D.name \o " must implement the perform() method"}
      [] D.perform = "FailingJob" -> {"This job always fails!"}
      [] D.perform = "user" -> {"perform failed"}
      [] OTHER -> {}

\* ------------------------------------------------------------------- state

VARIABLES
    currentConfig,   \* config.js: the mutable settings singleton
    now,             \* Date.now()
    calls,           \* the frame of each call context
    configFresh,     \* (history) reset() was the latest call on the settings
    configError,     \* (history) what the latest call on the settings threw
    defaultRedis,    \* config.js: the object defaultConfig.redis refers to
    redisIsDefault,  \* currentConfig.redis refers to that same object
    inlineAdapter,   \* adapters/index.js: cached InlineAdapter (0 = null)
    redisAdapter,    \* adapters/index.js: cached RedisAdapter (0 = null)
    instances,       \* how many adapters of each kind were constructed so far
    queues,          \* redis-adapter.js: queue name -> its cached Queue
    handles,         \* every Queue constructed so far, by queue name
    closeCalls,      \* every close() / closeAdapters() call made so far
    broker,          \* the items the broker has accepted, in order
    jobClasses,      \* the static fields of each job class, as they are now
    jobRegistry,     \* worker.js: job classes by name
    registered,      \* (history) the classes given to registerJob, in order
    workers,         \* worker.js: queue name -> its Worker (an index of pool)
    pool,            \* every Worker instance constructed so far
    startCall,       \* the latest startWorker call and what it returned
    stopCall         \* the stopWorkers call: where it is, what it closes

workerVars == <<jobRegistry, registered, workers, pool, startCall, stopCall>>

adapterVars ==
    <<inlineAdapter, redisAdapter, instances, queues, handles, closeCalls>>

defaultVars == <<defaultRedis, redisIsDefault>>

vars ==
    <<currentConfig, configFresh, configError, defaultVars, now, calls,
      adapterVars, broker, jobClasses, workerVars>>

ADAPTER_TYPES == {"inline", "redis"}

defaultConfig ==
    [queueAdapter |-> "inline",
     redis |-> [host |-> "localhost", port |-> 6379, password |-> Nothing],
     defaultRetryAttempts |-> 3, defaultBackoffDelay |-> 1000]

NoOptions == [args |-> <<>>, delay |-> Nothing, attempts |-> 0, backoff |-> 0]

\* The options object given to set(): each field may be absent.
NoOverrides == [queue |-> Nothing, attempts |-> Nothing, backoff |-> Nothing]

NoSubmission ==
    [queueName |-> "", name |-> "", jobClassName |-> "",
     jobClassPath |-> Nothing, args |-> <<>>, delay |-> 0, attempts |-> 0,
     backoffType |-> "", backoffDelay |-> 0]

\* A frame that has not been called yet.
IdleFrame ==
    [kind |-> "none", pc |-> "idle", def |-> NoJob, args |-> <<>>,
     calledAt |-> 0, adapter |-> "none", options |-> NoOptions,
     effDelay |-> 0, wakeAt |-> 0, submission |-> NoSubmission,
     input |-> 0, runs |-> 0, ranAt |-> 0, arguments |-> <<>>, attemptNumber |-> 1,
     jobId |-> Nothing, trace |-> <<>>, result |-> <<>>, error |-> "",
     returned |-> <<>>, thrown |-> "", via |-> "class",
     overrides |-> NoOverrides, worker |-> 0, item |-> 0,
     inFlightAtStop |-> FALSE, pickedDuringStop |-> FALSE,
     instance |-> 0, handle |-> 0]

\* A map with no key (new Map()).
EmptyMap == [k \in {} |-> 0]

NoStartCall == [queueName |-> "", concurrency |-> 0, returned |-> 0]

NoStopCall == [pc |-> "idle", closing |-> {}]

Init ==
    /\ currentConfig = defaultConfig
    /\ now = 0
    /\ calls = [c \in Calls |-> IdleFrame]
    /\ configFresh = FALSE
    /\ configError = ""
    /\ defaultRedis = defaultConfig.redis
    /\ redisIsDefault = TRUE
    /\ inlineAdapter = 0
    /\ redisAdapter = 0
    /\ instances = [kind \in ADAPTER_TYPES |-> 0]
    /\ queues = EmptyMap
    /\ handles = EmptyMap
    /\ closeCalls = <<>>
    /\ broker = <<>>
    /\ jobClasses = [n \in {D.name : D \in ExampleJobs} |-> Defined(n)]
    /\ jobRegistry = EmptyMap
    /\ registered = <<>>
    /\ workers = EmptyMap
    /\ pool = <<>>
    /\ startCall = NoStartCall
    /\ stopCall = NoStopCall

\* ------------------------------------------------------ BaseJob.performNow

\* One hook (or perform) is invoked with arg and awaited.  The trace keeps,
\* per invocation, what the hook was given and how it ended.
Invoke(f, h, arg) ==
    [f EXCEPT !.pc = h,
              !.trace = Append(@, [hook |-> h, arg |-> arg,
                                   ended |-> "pending", value |-> <<>>])]

\* The hook being awaited has ended: it returned v, or it raised <<e>>.
Settle(f, how, v) ==
    [f EXCEPT !.trace[Len(f.trace)].ended = how,
              !.trace[Len(f.trace)].value = v]

\* performNow's promise resolves with v.
Return(f, v) == [f EXCEPT !.pc = "returned", !.returned = v]

\* An error leaves the call.
Throw(f, e) == [f EXCEPT !.pc = "threw", !.thrown = e]

\* The catch block of performNow: onError(error) if defined, then rethrow.
Catch(f, e) ==
    IF "onError" \in f.def.hooks
    THEN Invoke([f EXCEPT !.error = e], "onError", <<e>>)
    ELSE Throw([f EXCEPT !.error = e], e)

\* this.perform(...args)
InvokePerform(f) == Invoke(f, "perform", f.arguments)

\* The start of performNow(...a) on a fresh instance, at time t:
\* this.arguments = args, then beforePerform if defined, else perform.
StartRun(f, a, t) ==
    LET g == [f EXCEPT !.runs = @ + 1, !.ranAt = t, !.arguments = a]
    IN  IF "beforePerform" \in g.def.hooks
        THEN Invoke(g, "beforePerform", <<>>)
        ELSE InvokePerform(g)

\* After perform returned res: afterPerform(result) if defined, else return.
AfterPerformed(f, res) ==
    LET g == [f EXCEPT !.result = res]
    IN  IF "afterPerform" \in g.def.hooks
        THEN Invoke(g, "afterPerform", res)
        ELSE Return(g, res)

\* job = new D(); job.performNow(...a)
PerformNow(c, D, a) ==
    /\ calls[c].pc = "idle"
    /\ calls' = [calls EXCEPT ![c] =
           StartRun([@ EXCEPT !.kind = "performNow", !.def = D, !.args = a,
                              !.calledAt = now], a, now)]
    /\ UNCHANGED <<currentConfig, configFresh, configError, defaultVars, now,
                   adapterVars, broker, jobClasses, workerVars>>

BeforePerformReturns(c) ==
    /\ calls[c].pc = "beforePerform"
    /\ calls' = [calls EXCEPT ![c] =
           InvokePerform(Settle(@, "returned", <<>>))]
    /\ UNCHANGED <<currentConfig, configFresh, configError, defaultVars, now,
                   adapterVars, broker, jobClasses, workerVars>>

BeforePerformRaises(c) ==
    /\ calls[c].pc = "beforePerform"
    /\ calls' = [calls EXCEPT ![c] =
           Catch(Settle(@, "raised", <<"beforePerform failed">>),
                 "beforePerform failed")]
    /\ UNCHANGED <<currentConfig, configFresh, configError, defaultVars, now,
                   adapterVars, broker, jobClasses, workerVars>>

PerformReturns(c) ==
    /\ calls[c].pc = "perform"
    /\ \E res \in PerformResults(calls[c].def, calls[c].args) :
          calls' = [calls EXCEPT ![c] =
              AfterPerformed(Settle(@, "returned", res), res)]
    /\ UNCHANGED <<currentConfig, configFresh, configError, defaultVars, now,
                   adapterVars, broker, jobClasses, workerVars>>

PerformRaises(c) ==
    /\ calls[c].pc = "perform"
    /\ \E e \in PerformErrors(calls[c].def) :
          calls' = [calls EXCEPT ![c] = Catch(Settle(@, "raised", <<e>>), e)]
    /\ UNCHANGED <<currentConfig, configFresh, configError, defaultVars, now,
                   adapterVars, broker, jobClasses, workerVars>>

\* (variant: performNow returns what afterPerform returned)
AfterPerformReturnsHookValue(c) ==
    /\ calls[c].pc = "afterPerform"
    /\ calls' = [calls EXCEPT ![c] =
           Return(Settle(@, "returned", <<"afterPerform value">>),
                  <<"afterPerform value">>)]
    /\ UNCHANGED <<currentConfig, configFresh, configError, defaultVars, now,
                   adapterVars, broker, jobClasses, workerVars>>

AfterPerformReturns(c) ==
    /\ calls[c].pc = "afterPerform"
    /\ calls' = [calls EXCEPT ![c] =
           Return(Settle(@, "returned", <<"afterPerform value">>), @.result)]
    /\ UNCHANGED <<currentConfig, configFresh, configError, defaultVars, now,
                   adapterVars, broker, jobClasses, workerVars>>

AfterPerformRaises(c) ==
    /\ calls[c].pc = "afterPerform"
    /\ calls' = [calls EXCEPT ![c] =
           Catch(Settle(@, "raised", <<"afterPerform failed">>),
                 "afterPerform failed")]
    /\ UNCHANGED <<currentConfig, configFresh, configError, defaultVars, now,
                   adapterVars, broker, jobClasses, workerVars>>

OnErrorReturns(c) ==
    /\ calls[c].pc = "onError"
    /\ calls' = [calls EXCEPT ![c] = Throw(Settle(@, "returned", <<>>), @.error)]
    /\ UNCHANGED <<currentConfig, configFresh, configError, defaultVars, now,
                   adapterVars, broker, jobClasses, workerVars>>

OnErrorRaises(c) ==
    /\ calls[c].pc = "onError"
    /\ calls' = [calls EXCEPT ![c] =
           Throw(Settle(@, "raised", <<"onError failed">>), "onError failed")]
    /\ UNCHANGED <<currentConfig, configFresh, configError, defaultVars, now,
                   adapterVars, broker, jobClasses, workerVars>>

\* The steps of a run that is under way.
RunStep(c) ==
    \/ BeforePerformReturns(c)
    \/ BeforePerformRaises(c)
    \/ PerformReturns(c)
    \/ PerformRaises(c)
    \/ AfterPerformReturns(c)
    \/ AfterPerformRaises(c)
    \/ OnErrorReturns(c)
    \/ OnErrorRaises(c)

\* Runs of performNow on instances of every shape of job definition, in one
\* call context.
NextRun ==
    \/ \E D \in AnyJobs \cup {BaseJob, C, FailingJob}, a \in ArgLists :
          PerformNow(1, D, a)
    \/ RunStep(1)

SpecRun == Init /\ [][NextRun]_vars

\* ---------------------------------------------------------------- config.js

\* (variant: the setter assigns whatever it is given)
QueueAdapterAssignedUnchecked(config, adapter) ==
    [config EXCEPT !.queueAdapter = adapter]

\* set queueAdapter(adapter), on the settings object config: an unknown kind
\* throws and nothing is assigned.
QueueAdapterAssigned(config, adapter) ==
    IF adapter \in ADAPTER_TYPES
    THEN [config EXCEPT !.queueAdapter = adapter]
    ELSE config

\* if (!Object.values(ADAPTER_TYPES).includes(adapter)) throw new Error(...)
QueueAdapterError(adapter) ==
    IF adapter \in ADAPTER_TYPES THEN "" ELSE "Unknown adapter"

SetQueueAdapter(adapter) ==
    /\ currentConfig' = QueueAdapterAssigned(currentConfig, adapter)
    /\ configFresh' = FALSE
    /\ configError' = QueueAdapterError(adapter)
    /\ UNCHANGED <<defaultVars, now, calls, adapterVars, broker, jobClasses,
                   workerVars>>

\* set defaultRetryAttempts(attempts)
SetDefaultRetryAttempts(attempts) ==
    /\ currentConfig' = [currentConfig EXCEPT !.defaultRetryAttempts = attempts]
    /\ configFresh' = FALSE
    /\ configError' = ""
    /\ UNCHANGED <<defaultVars, now, calls, adapterVars, broker, jobClasses,
                   workerVars>>

\* set defaultBackoffDelay(delay)
SetDefaultBackoffDelay(delay) ==
    /\ currentConfig' = [currentConfig EXCEPT !.defaultBackoffDelay = delay]
    /\ configFresh' = FALSE
    /\ configError' = ""
    /\ UNCHANGED <<defaultVars, now, calls, adapterVars, broker, jobClasses,
                   workerVars>>

\* set redis(options): the given fields are merged over the current ones,
\* into a new object.
SetRedis(options) ==
    /\ currentConfig' =
           [currentConfig EXCEPT !.redis = options @@ currentConfig.redis]
    /\ redisIsDefault' = FALSE
    /\ configFresh' = FALSE
    /\ configError' = ""
    /\ UNCHANGED <<defaultRedis, now, calls, adapterVars, broker, jobClasses,
                   workerVars>>

\* config.redis[field] = value: the getter returns the object currentConfig
\* refers to, and the field is written in place, whatever else refers to
\* that object.
WriteRedis(field, value) ==
    /\ currentConfig' = [currentConfig EXCEPT !.redis[field] = value]
    /\ defaultRedis' = IF redisIsDefault
                       THEN [defaultRedis EXCEPT ![field] = value]
                       ELSE defaultRedis
    /\ configFresh' = FALSE
    /\ configError' = ""
    /\ UNCHANGED <<redisIsDefault, now, calls, adapterVars, broker,
                   jobClasses, workerVars>>

\* (variant: reset keeps the adapter kind)
ConfigAfterResetKeepingAdapter(config) ==
    [defaultConfig EXCEPT !.queueAdapter = config.queueAdapter,
                          !.redis = defaultRedis]

\* reset(): currentConfig = { ...defaultConfig } -- a shallow copy, whose
\* redis is the object defaultConfig.redis refers to, as it is by now.
ConfigAfterReset(config) == [defaultConfig EXCEPT !.redis = defaultRedis]

Reset ==
    /\ currentConfig' = ConfigAfterReset(currentConfig)
    /\ redisIsDefault' = TRUE
    /\ configFresh' = TRUE
    /\ configError' = ""
    /\ UNCHANGED <<defaultRedis, now, calls, adapterVars, broker, jobClasses,
                   workerVars>>

\* ------------------------------------------------------- adapters/index.js

\* getAdapter(): the adapter kind the configuration names at this moment.
getAdapter == currentConfig.queueAdapter

\* The module-level variable that caches the adapter of a kind.
CachedAdapter(kind) ==
    CASE kind = "inline" -> inlineAdapter
      [] kind = "redis" -> redisAdapter
      [] OTHER -> 0

\* (variant: getAdapter constructs a new adapter on every call)
InstanceReturnedAlwaysNew(cached, made) == made + 1

\* if (!adapter) adapter = new Adapter(); return adapter -- the instance
\* getAdapter() returns, when `made` adapters of the kind exist so far.
InstanceReturned(cached, made) == IF cached # 0 THEN cached ELSE made + 1

\* The instance getAdapter() returns for a kind, as things are now.
AdapterInstance(kind) ==
    IF kind \in ADAPTER_TYPES
    THEN InstanceReturned(CachedAdapter(kind), instances[kind])
    ELSE 0

\* getAdapter() instantiates the adapter of that kind on first use.
AdapterCached(kind) ==
    /\ AdapterInstance(kind) <= MaxInstances
    /\ inlineAdapter' =
           IF kind = "inline" THEN AdapterInstance(kind) ELSE inlineAdapter
    /\ redisAdapter' =
           IF kind = "redis" THEN AdapterInstance(kind) ELSE redisAdapter
    /\ instances' =
           [k \in ADAPTER_TYPES |->
               IF k = kind THEN MathMax(instances[k], AdapterInstance(kind))
               ELSE instances[k]]

\* ----------------------------------------------------------- the adapters

\* const { delay = 0 } = options
OptionDelay(options) == Nullish(options.delay, 0)

\* (variant: the inline adapter ignores the delay)
InlineEnqueueNoWait(f, t) ==
    StartRun([f EXCEPT !.adapter = "inline",
                       !.effDelay = OptionDelay(f.options)],
             f.options.args, t)

\* InlineAdapter.enqueue: wait when delay > 0, else construct the job and
\* call performNow at once.
InlineEnqueue(f, t) ==
    LET delay == OptionDelay(f.options)
        g == [f EXCEPT !.adapter = "inline", !.effDelay = delay]
    IN  IF delay > 0
        THEN [g EXCEPT !.pc = "sleeping", !.wakeAt = t + delay]
        ELSE StartRun(g, f.options.args, t)

\* JobClass.queue || 'default'
QueueNameOf(D) == IF D.queue = "" THEN "default" ELSE D.queue

\* JobClass._filePath || null
PathOrNull(filePath) ==
    IF filePath = Nothing \/ filePath = Just("") THEN Nothing ELSE filePath

\* (variant: the backoff handed to the broker is an exponential one)
SubmissionExponential(D, options) ==
    [queueName |-> QueueNameOf(D), name |-> D.name, jobClassName |-> D.name,
     jobClassPath |-> PathOrNull(D.filePath),
     args |-> options.args, delay |-> OptionDelay(options),
     attempts |-> options.attempts, backoffType |-> "exponential",
     backoffDelay |-> options.backoff]

\* The job data and options RedisAdapter.enqueue gives to queue.add.
Submission(D, options) ==
    [queueName |-> QueueNameOf(D), name |-> D.name, jobClassName |-> D.name,
     jobClassPath |-> PathOrNull(D.filePath),
     args |-> options.args, delay |-> OptionDelay(options),
     attempts |-> options.attempts, backoffType |-> "fixed",
     backoffDelay |-> options.backoff]

\* (variant: the redis adapter runs the job itself, like the inline one)
RedisEnqueueExecuting(f) ==
    StartRun([f EXCEPT !.adapter = "redis", !.effDelay = OptionDelay(f.options)],
             f.options.args, f.calledAt)

\* RedisAdapter.enqueue up to its await of queue.add.
RedisEnqueue(f) ==
    [f EXCEPT !.adapter = "redis", !.effDelay = OptionDelay(f.options),
              !.submission = Submission(f.def, f.options), !.pc = "adding"]

\* adapter.enqueue(this, options) on the adapter getAdapter() returned;
\* getAdapter() throws for a kind that has no adapter.
Enqueue(kind, f, t) ==
    CASE kind = "inline" -> InlineEnqueue(f, t)
      [] kind = "redis" -> RedisEnqueue(f)
      [] OTHER -> Throw(f, "Unknown adapter type")

\* The Queue instances constructed so far for a queue name.
HandlesNamed(queueName) ==
    IF queueName \in DOMAIN handles THEN handles[queueName] ELSE <<>>

\* new Queue(queueName, { connection }): connected with the host, port and
\* password the configuration holds now.
NewQueue == [connection |-> currentConfig.redis, state |-> "open"]

\* (variant: getQueue constructs a Queue on every call)
GetQueueAlwaysNew(queueName) == Len(HandlesNamed(queueName)) + 1

\* getQueue(queueName): the cached Queue of the name, else a new one.
GetQueue(queueName) ==
    IF queueName \in DOMAIN queues
    THEN queues[queueName]
    ELSE Len(HandlesNamed(queueName)) + 1

\* The Queue a call on D goes through (0: none, the adapter is not redis).
QueueUsed(kind, D) ==
    IF kind = "redis" THEN GetQueue(QueueNameOf(D)) ELSE 0

\* getQueue(queueName) caches a Queue for the name on first use.
QueuesAfter(kind, D) ==
    IF kind = "redis"
    THEN (QueueNameOf(D) :> GetQueue(QueueNameOf(D))) @@ queues
    ELSE queues

\* The Queue that getQueue constructs, if it constructs one.
HandlesAfter(kind, D) ==
    IF kind = "redis" /\ QueueNameOf(D) \notin DOMAIN queues
    THEN (QueueNameOf(D) :> Append(HandlesNamed(QueueNameOf(D)), NewQueue))
         @@ handles
    ELSE handles

\* (history) a redis enqueue that runs while a close call is waiting is
\* noted on that call.
CloseCallsRacedBy(kind) ==
    [k \in DOMAIN closeCalls |->
        IF kind = "redis" /\ closeCalls[k].pc = "waiting"
        THEN [closeCalls[k] EXCEPT !.raced = TRUE]
        ELSE closeCalls[k]]

\* ---------------------------------------- BaseJob.performLater / In / At

\* (variant: the defaults are the built-in ones, not the current ones)
EnqueueOptionsBuiltIn(D, a, delay) ==
    [args |-> a, delay |-> delay,
     attempts |-> Nullish(D.retryAttempts, defaultConfig.defaultRetryAttempts),
     backoff |-> Nullish(D.backoffDelay, defaultConfig.defaultBackoffDelay)]

\* The options object performLater / performIn build: attempts and backoff
\* resolved against the configuration as it is now.
EnqueueOptions(D, a, delay) ==
    [args |-> a, delay |-> delay,
     attempts |-> Nullish(D.retryAttempts, currentConfig.defaultRetryAttempts),
     backoff |-> Nullish(D.backoffDelay, currentConfig.defaultBackoffDelay)]

\* (variant: the difference is not clamped at 0)
DelayUntilUnclamped(date, t) == date - t

\* performAt's delayMs = Math.max(0, date.getTime() - Date.now())
DelayUntil(date, t) == MathMax(0, date - t)

\* A class-level enqueueing call on class D, from its entry to its first
\* await.  The frame notes whether the call came through set(), and with
\* which overrides.
Called(c, kind, D, a, input, delay, via, overrides) ==
    /\ calls[c].pc = "idle"
    /\ AdapterCached(getAdapter)
    /\ queues' = QueuesAfter(getAdapter, D)
    /\ handles' = HandlesAfter(getAdapter, D)
    /\ closeCalls' = CloseCallsRacedBy(getAdapter)
    /\ calls' = [calls EXCEPT ![c] =
           Enqueue(getAdapter,
                   [@ EXCEPT !.kind = kind, !.def = D, !.args = a,
                             !.input = input, !.calledAt = now,
                             !.via = via, !.overrides = overrides,
                             !.options = EnqueueOptions(D, a, delay),
                             !.instance = AdapterInstance(getAdapter),
                             !.handle = QueueUsed(getAdapter, D)],
                   now)]
    /\ UNCHANGED <<currentConfig, configFresh, configError, defaultVars, now,
                   broker, workerVars>>

\* The call made on the job class itself.
Dispatch(c, kind, D, a, input, delay) ==
    /\ Called(c, kind, D, a, input, delay, "class", NoOverrides)
    /\ UNCHANGED jobClasses

PerformLater(c, D, a) == Dispatch(c, "performLater", D, a, 0, Nothing)

PerformIn(c, D, delayMs, a) ==
    Dispatch(c, "performIn", D, a, delayMs, Just(delayMs))

PerformAt(c, D, date, a) ==
    Dispatch(c, "performAt", D, a, date, Just(DelayUntil(date, now)))

\* new RedisAdapter().enqueue(D, options), up to its await: the application
\* enqueues through a RedisAdapter that it has constructed itself, with the
\* options performLater would build.  getAdapter() and its two variables
\* are not involved; the Queue cache is the module's, as for every instance.
OwnAdapterEnqueue(c, D, a) ==
    /\ calls[c].pc = "idle"
    /\ instances["redis"] < MaxInstances
    /\ instances' = [instances EXCEPT !["redis"] = @ + 1]
    /\ queues' = QueuesAfter("redis", D)
    /\ handles' = HandlesAfter("redis", D)
    /\ closeCalls' = CloseCallsRacedBy("redis")
    /\ calls' = [calls EXCEPT ![c] =
           Enqueue("redis",
                   [@ EXCEPT !.kind = "enqueue", !.def = D, !.args = a,
                             !.calledAt = now,
                             !.options = EnqueueOptions(D, a, Nothing),
                             !.instance = instances["redis"] + 1,
                             !.handle = QueueUsed("redis", D)],
                   now)]
    /\ UNCHANGED <<currentConfig, configFresh, configError, defaultVars, now,
                   inlineAdapter, redisAdapter, broker, jobClasses,
                   workerVars>>

\* ------------------------------------------------------------- BaseJob.set

\* (variant: set derives a class that ignores the overrides)
ConfiguredJobWithoutOverrides(JobCls, options) == JobCls

\* (variant: the derived class keeps the name of its class expression)
ConfiguredJobUnnamed(JobCls, options) ==
    [JobCls EXCEPT
        !.name = "ConfiguredJob",
        !.queue = Nullish(options.queue, JobCls.queue),
        !.retryAttempts =
            IF options.attempts = Nothing THEN JobCls.retryAttempts
                                          ELSE options.attempts,
        !.backoffDelay =
            IF options.backoff = Nothing THEN JobCls.backoffDelay
                                         ELSE options.backoff]

\* The class set(options) derives from JobCls: each of queue, retryAttempts
\* and backoffDelay is options' value ?? JobCls's; name and _filePath are
\* copied, everything else is inherited.
ConfiguredJob(JobCls, options) ==
    [JobCls EXCEPT
        !.queue = Nullish(options.queue, JobCls.queue),
        !.retryAttempts =
            IF options.attempts = Nothing THEN JobCls.retryAttempts
                                          ELSE options.attempts,
        !.backoffDelay =
            IF options.backoff = Nothing THEN JobCls.backoffDelay
                                         ELSE options.backoff]

\* (variant: set assigns the overrides to the class it was called on)
ClassesAfterSetAssigning(n, options) ==
    [jobClasses EXCEPT ![n] = ConfiguredJob(jobClasses[n], options)]

\* The job classes after set(options) on class n: the overrides are static
\* fields of the derived class only, the class itself is not written.
ClassesAfterSet(n, options) == jobClasses

\* n.set(options).performLater(...a), .performIn(delayMs, ...a) and
\* .performAt(date, ...a): the same call made on the derived class.
SetPerformLater(c, n, options, a) ==
    /\ Called(c, "performLater", ConfiguredJob(jobClasses[n], options), a,
              0, Nothing, "set", options)
    /\ jobClasses' = ClassesAfterSet(n, options)

SetPerformIn(c, n, options, delayMs, a) ==
    /\ Called(c, "performIn", ConfiguredJob(jobClasses[n], options), a,
              delayMs, Just(delayMs), "set", options)
    /\ jobClasses' = ClassesAfterSet(n, options)

SetPerformAt(c, n, options, date, a) ==
    /\ Called(c, "performAt", ConfiguredJob(jobClasses[n], options), a,
              date, Just(DelayUntil(date, now)), "set", options)
    /\ jobClasses' = ClassesAfterSet(n, options)

\* The members a job class has at class level (static).  performNow is an
\* instance method and is not among them.
StaticMembers == {"performLater", "performIn", "performAt", "set"}

\* D.performNow(...a) written against the class: a call of a member the
\* class does not have raises a TypeError before anything else happens.
ClassPerformNow(c, D, a) ==
    /\ calls[c].pc = "idle"
    /\ calls' = [calls EXCEPT ![c] =
           LET f == [@ EXCEPT !.kind = "classPerformNow", !.def = D,
                              !.args = a, !.calledAt = now]
           IN  IF "performNow" \in StaticMembers
               THEN StartRun(f, a, now)
               ELSE Throw(f, "TypeError: performNow is not a function")]
    /\ UNCHANGED <<currentConfig, configFresh, configError, defaultVars, now,
                   adapterVars, broker, jobClasses, workerVars>>

\* The inline adapter's setTimeout fires: never before its delay has passed.
TimerFires(c) ==
    /\ calls[c].pc = "sleeping"
    /\ now >= calls[c].wakeAt
    /\ calls' = [calls EXCEPT ![c] = StartRun(@, @.options.args, now)]
    /\ UNCHANGED <<currentConfig, configFresh, configError, defaultVars, now,
                   adapterVars, broker, jobClasses, workerVars>>

JobIds == <<"1", "2", "3", "4">>

\* An argument as it comes back from the broker: the job data is stored as
\* JSON text, in which an undefined array element is written as null.
JsonValue(v) == IF v = "undefined" THEN "null" ELSE v

\* JSON.parse(JSON.stringify(args))
Stored(args) == [i \in DOMAIN args |-> JsonValue(args[i])]

\* The item the broker keeps for an accepted submission: it is given the
\* next id and waits for a worker (after its delay, when it has one).  picked
\* and executions are history: how often a worker took the item, and how
\* often performNow was called for it.
Accepted(submission, id) ==
    [id |-> id, state |-> IF submission.delay > 0 THEN "delayed" ELSE "waiting",
     attemptsMade |-> 0, failedReason |-> "", returnvalue |-> <<>>,
     args |-> Stored(submission.args), picked |-> 0, executions |-> 0]
    @@ submission

\* queue.add resolves: the broker holds the item and hands back its job.
AddResolves(c) ==
    /\ calls[c].pc = "adding"
    /\ Len(broker) < Len(JobIds)
    /\ broker' = Append(broker, Accepted(calls[c].submission,
                                         JobIds[Len(broker) + 1]))
    /\ calls' = [calls EXCEPT ![c] =
           Return(@, <<"bullmq job", JobIds[Len(broker) + 1]>>)]
    /\ UNCHANGED <<currentConfig, configFresh, configError, defaultVars, now,
                   adapterVars, jobClasses, workerVars>>

\* queue.add rejects (the broker is unreachable): the error reaches the caller.
AddRejects(c) ==
    /\ calls[c].pc = "adding"
    /\ calls' = [calls EXCEPT ![c] = Throw(@, "connect ECONNREFUSED")]
    /\ UNCHANGED <<currentConfig, configFresh, configError, defaultVars, now,
                   adapterVars, broker, jobClasses, workerVars>>

\* Time passes.
Tick ==
    /\ now < MaxTime
    /\ now' = now + 1
    /\ UNCHANGED <<currentConfig, configFresh, configError, defaultVars,
                   calls, adapterVars, broker, jobClasses, workerVars>>

\* --------------------------------------- RedisAdapter.close, closeAdapters

\* The Queue instances the cache holds: <<queue name, index>>.
Cached == {<<q, queues[q]>> : q \in DOMAIN queues}

\* queue.close() has been called on each Queue of the set: an open one
\* starts closing.
HandlesClosing(closing) ==
    [q \in DOMAIN handles |->
        [i \in DOMAIN handles[q] |->
            IF <<q, i>> \in closing /\ handles[q][i].state = "open"
            THEN [handles[q][i] EXCEPT !.state = "closing"]
            ELSE handles[q][i]]]

\* A call of close() or closeAdapters(), up to its await.  redis: whether
\* RedisAdapter.close() runs in it; closing: the Queues it waits for;
\* cached: (history) the Queues the cache held when the call was made.
CloseCall(kind, redis) ==
    [kind |-> kind, pc |-> "waiting", redis |-> redis,
     closing |-> IF redis THEN Cached ELSE {}, cached |-> Cached,
     raced |-> FALSE]

\* closeAdapters(): close() is called on each adapter that exists and its
\* variable is set to null; then the call awaits the promises.
CloseAdapters ==
    /\ Len(closeCalls) < MaxCloses
    /\ closeCalls' = Append(closeCalls,
                            CloseCall("closeAdapters", redisAdapter # 0))
    /\ handles' = IF redisAdapter # 0 THEN HandlesClosing(Cached) ELSE handles
    /\ inlineAdapter' = 0
    /\ redisAdapter' = 0
    /\ UNCHANGED <<currentConfig, configFresh, configError, defaultVars, now,
                   calls, instances, queues, broker, jobClasses, workerVars>>

\* close() called on a RedisAdapter the application holds.
RedisAdapterClose ==
    /\ instances["redis"] > 0
    /\ Len(closeCalls) < MaxCloses
    /\ closeCalls' = Append(closeCalls, CloseCall("close", TRUE))
    /\ handles' = HandlesClosing(Cached)
    /\ UNCHANGED <<currentConfig, configFresh, configError, defaultVars, now,
                   calls, inlineAdapter, redisAdapter, instances, queues,
                   broker, jobClasses, workerVars>>

\* The promise of queue.close() resolves: the Queue is closed.
QueueClosed(q, i) ==
    /\ q \in DOMAIN handles
    /\ i \in DOMAIN handles[q]
    /\ handles[q][i].state = "closing"
    /\ handles' = [handles EXCEPT ![q][i].state = "closed"]
    /\ UNCHANGED <<currentConfig, configFresh, configError, defaultVars, now,
                   calls, inlineAdapter, redisAdapter, instances, queues,
                   closeCalls, broker, jobClasses, workerVars>>

\* (variant: close() leaves the cache as it is)
QueuesAfterCloseKept(call) == queues

\* After await Promise.all(closePromises): queues.clear(), when
\* RedisAdapter.close() ran in the call.
QueuesAfterClose(call) == IF call.redis THEN EmptyMap ELSE queues

\* Every promise the call awaits has resolved: it clears and returns.
CloseReturns(k) ==
    /\ k \in DOMAIN closeCalls
    /\ closeCalls[k].pc = "waiting"
    /\ \A h \in closeCalls[k].closing : handles[h[1]][h[2]].state = "closed"
    /\ queues' = QueuesAfterClose(closeCalls[k])
    /\ closeCalls' = [closeCalls EXCEPT ![k].pc = "returned"]
    /\ UNCHANGED <<currentConfig, configFresh, configError, defaultVars, now,
                   calls, inlineAdapter, redisAdapter, instances, handles,
                   broker, jobClasses, workerVars>>

\* The caller of a finished call goes on: its context is free for the
\* application's next call.
NextCall(c) ==
    /\ calls[c].pc \in {"returned", "threw"}
    /\ calls' = [calls EXCEPT ![c] = IdleFrame]
    /\ UNCHANGED <<currentConfig, configFresh, configError, defaultVars, now,
                   adapterVars, broker, jobClasses, workerVars>>

\* ------------------------------------------------------------ the program

\* The job classes the application has defined, as they are now.
DefinedJobs == {jobClasses[n] : n \in DOMAIN jobClasses}

Delays == (0 - 1)..MaxDelay

Dates == 0..(MaxTime + MaxDelay)

\* The application configures the library and makes one class-level call.
Next ==
    \/ \E a \in {"inline", "redis", "sidekiq"} : SetQueueAdapter(a)
    \/ \E n \in {3, 7} : SetDefaultRetryAttempts(n)
    \/ \E d \in {1000, 250} : SetDefaultBackoffDelay(d)
    \/ \E D \in DefinedJobs, a \in CallArgs :
          \/ PerformLater(1, D, a)
          \/ ClassPerformNow(1, D, a)
          \/ \E delayMs \in Delays : PerformIn(1, D, delayMs, a)
          \/ \E date \in Dates : PerformAt(1, D, date, a)
    \/ RunStep(1)
    \/ TimerFires(1)
    \/ AddResolves(1)
    \/ AddRejects(1)
    \/ Tick

Spec == Init /\ [][Next]_vars

\* Concurrent call contexts on the inline adapter (the configuration is left
\* at its default): delayed and undelayed calls of C and FailingJob.
NextInline ==
    \/ \E c \in Calls, n \in {"C", "FailingJob"}, a \in CallArgs :
        LET D == jobClasses[n] IN
          \/ PerformLater(c, D, a)
          \/ \E delayMs \in Delays : PerformIn(c, D, delayMs, a)
    \/ \E c \in Calls :
          \/ PerformReturns(c)
          \/ PerformRaises(c)
          \/ OnErrorReturns(c)
          \/ OnErrorRaises(c)
          \/ TimerFires(c)
    \/ Tick

SpecInline == Init /\ [][NextInline]_vars

\* The overrides given to set(): each field absent or supplied.
Overrides ==
    [queue : {Nothing, Just("high_priority")},
     attempts : {Nothing, Just(10), Just(0)},
     backoff : {Nothing, Just(50)}]

\* Calls on C and FailingJob under either adapter: one call context calls
\* through set(), and both call the class itself, in any interleaving.
NextSet ==
    \/ \E a \in ADAPTER_TYPES : SetQueueAdapter(a)
    \/ \E n \in {0, 7} : SetDefaultRetryAttempts(n)
    \/ \E n \in {"C", "FailingJob"} :
        LET a == <<"x", "zeon">> IN
          \/ \E c \in Calls : PerformLater(c, jobClasses[n], a)
          \/ \E o \in Overrides :
                \/ SetPerformLater(1, n, o, a)
                \/ SetPerformIn(1, n, o, 0, a)
                \/ SetPerformAt(1, n, o, 0, a)
    \/ \E c \in Calls :
          \/ PerformReturns(c)
          \/ PerformRaises(c)
          \/ OnErrorReturns(c)
          \/ OnErrorRaises(c)
          \/ AddResolves(c)
          \/ AddRejects(c)

SpecSet == Init /\ [][NextSet]_vars

\* The connection settings the application assigns to config.redis.
RedisOptions == {[host |-> "redis.example.com"]}

\* The application uses the redis adapter: it changes the connection
\* settings, enqueues C on its own queue and on another one, and closes the
\* adapters, in any order and with calls overlapping.
NextClose ==
    \/ SetQueueAdapter("redis")
    \/ \E o \in RedisOptions : SetRedis(o)
    \/ /\ getAdapter = "redis"
       /\ \/ PerformLater(1, jobClasses["C"], <<>>)
          \/ SetPerformLater(1, "C", [NoOverrides EXCEPT
                                          !.queue = Just("high_priority")],
                             <<>>)
    \/ (broker = <<>> /\ AddResolves(1))
    \/ AddRejects(1)
    \/ NextCall(1)
    \/ CloseAdapters
    \/ RedisAdapterClose
    \/ \E q \in {"default", "high_priority"}, i \in 1..(MaxCloses + 1) :
          QueueClosed(q, i)
    \/ \E k \in 1..MaxCloses : CloseReturns(k)

SpecClose == Init /\ [][NextClose]_vars

\* The application switches between the two adapters, changes the
\* connection settings, enqueues C and closes the adapters.
NextAdapters ==
    \/ \E a \in ADAPTER_TYPES : SetQueueAdapter(a)
    \/ \E o \in RedisOptions : SetRedis(o)
    \/ PerformLater(1, jobClasses["C"], <<>>)
    \/ PerformReturns(1)
    \/ (broker = <<>> /\ AddResolves(1))
    \/ AddRejects(1)
    \/ NextCall(1)
    \/ CloseAdapters
    \/ \E i \in 1..(MaxCloses + 1) : QueueClosed("default", i)
    \/ \E k \in 1..MaxCloses : CloseReturns(k)

SpecAdapters == Init /\ [][NextAdapters]_vars

\* The application enqueues C through the redis adapter from two call
\* contexts at once: through getAdapter() on C's own queue and on another
\* one, and through RedisAdapter instances of its own; it closes the
\* adapters at any moment.
NextQueues ==
    \/ SetQueueAdapter("redis")
    \/ \E c \in Calls :
          \/ (getAdapter = "redis" /\ PerformLater(c, jobClasses["C"], <<>>))
          \/ OwnAdapterEnqueue(c, jobClasses["C"], <<>>)
          \/ (broker = <<>> /\ AddResolves(c))
          \/ NextCall(c)
    \/ /\ getAdapter = "redis"
       /\ SetPerformLater(1, "C", [NoOverrides EXCEPT
                                       !.queue = Just("high_priority")],
                          <<>>)
    \/ CloseAdapters
    \/ \E q \in {"default", "high_priority"}, i \in 1..(MaxCloses + 1) :
          QueueClosed(q, i)
    \/ \E k \in 1..MaxCloses : CloseReturns(k)

SpecQueues == Init /\ [][NextQueues]_vars

\* The application writes the settings in any order, resets them, and
\* enqueues C (which defines no retry settings) and FailingJob (which does).
NextConfig ==
    \/ \E a \in {"inline", "redis", "sidekiq"} : SetQueueAdapter(a)
    \/ \E n \in {0, 7} : SetDefaultRetryAttempts(n)
    \/ SetDefaultBackoffDelay(250)
    \/ \E o \in RedisOptions : SetRedis(o)
    \/ Reset
    \/ \E n \in {"C", "FailingJob"} : PerformLater(1, jobClasses[n], <<>>)
    \/ PerformReturns(1)
    \/ PerformRaises(1)
    \/ OnErrorReturns(1)
    \/ OnErrorRaises(1)
    \/ (broker = <<>> /\ AddResolves(1))
    \/ AddRejects(1)
    \/ NextCall(1)

SpecConfig == Init /\ [][NextConfig]_vars

\* The hosts the application writes into the object config.redis returns.
RedisHosts == {"10.0.0.5", "redis.internal"}

\* The application changes the connection settings, by assigning
\* config.redis and by writing into the object config.redis returns, resets
\* the configuration and enqueues C under either adapter.
NextSettings ==
    \/ \E a \in ADAPTER_TYPES : SetQueueAdapter(a)
    \/ \E o \in RedisOptions : SetRedis(o)
    \/ \E h \in RedisHosts : WriteRedis("host", h)
    \/ Reset
    \/ PerformLater(1, jobClasses["C"], <<>>)
    \/ PerformReturns(1)
    \/ (broker = <<>> /\ AddResolves(1))
    \/ AddRejects(1)
    \/ NextCall(1)

SpecSettings == Init /\ [][NextSettings]_vars

\* ---------------------------------------------------------------- worker.js

\* How many registerJob calls, Worker instances and broker items a run has.
MaxRegistrations == 2
MaxWorkers == 2
MaxItems == 2

\* (variant: a name that is registered keeps its first class)
RegistryAfterKeepingFirst(K) ==
    IF K.name \in DOMAIN jobRegistry THEN jobRegistry
    ELSE (K.name :> K) @@ jobRegistry

\* jobRegistry.set(JobClass.name, JobClass)
RegistryAfter(K) == (K.name :> K) @@ jobRegistry

\* registerJob(JobClass, filePath = null): the class's _filePath is
\* assigned and the class is stored under its name.
RegisterJob(D, filePath) ==
    /\ Len(registered) < MaxRegistrations
    /\ LET K == [D EXCEPT !.filePath = filePath]
       IN  /\ jobRegistry' = RegistryAfter(K)
           /\ registered' = Append(registered, K)
           /\ jobClasses' =
                  IF D.name \in DOMAIN jobClasses /\ jobClasses[D.name] = D
                  THEN [jobClasses EXCEPT ![D.name] = K]
                  ELSE jobClasses
    /\ UNCHANGED <<currentConfig, configFresh, configError, defaultVars, now,
                   calls, adapterVars, broker, workers, pool, startCall,
                   stopCall>>

\* Another process (the application) enqueues D.performLater(...a) through
\* its redis adapter and the broker accepts the item.
Produce(D, a) ==
    /\ Len(broker) < MaxItems
    /\ broker' = Append(broker,
                        Accepted(Submission(D, EnqueueOptions(D, a, Nothing)),
                                 JobIds[Len(broker) + 1]))
    /\ UNCHANGED <<currentConfig, configFresh, configError, defaultVars, now,
                   calls, adapterVars, jobClasses, workerVars>>

\* The error processJob raises for a name the registry does not hold.
NotFound(n) ==
    "Job class \"" \o n \o "\" not found in registry. " \o
    "Did you forget to call registerJob(" \o n \o ")?"

\* (variant: a name that is not registered is run as a plain BaseJob)
ProcessJobConstructingAnyway(f, bullJob) ==
    LET g == [f EXCEPT !.kind = "processJob", !.args = bullJob.args,
                       !.calledAt = now,
                       !.jobId = Just(bullJob.id),
                       !.attemptNumber = bullJob.attemptsMade + 1]
        n == bullJob.jobClassName
    IN  StartRun([g EXCEPT !.def = IF n \in DOMAIN jobRegistry
                                   THEN jobRegistry[n] ELSE BaseJob],
                 bullJob.args, now)

\* (variant: the instance is given the number of attempts made so far)
ProcessJobCountingFromZero(f, bullJob) ==
    LET g == [f EXCEPT !.kind = "processJob", !.args = bullJob.args,
                       !.calledAt = now]
        n == bullJob.jobClassName
    IN  IF n \in DOMAIN jobRegistry
        THEN StartRun([g EXCEPT !.def = jobRegistry[n],
                                !.jobId = Just(bullJob.id),
                                !.attemptNumber = bullJob.attemptsMade],
                      bullJob.args, now)
        ELSE Throw(g, NotFound(n))

\* (variant: performNow is called without the arguments)
ProcessJobWithoutArgs(f, bullJob) ==
    LET g == [f EXCEPT !.kind = "processJob", !.args = bullJob.args,
                       !.calledAt = now]
        n == bullJob.jobClassName
    IN  IF n \in DOMAIN jobRegistry
        THEN StartRun([g EXCEPT !.def = jobRegistry[n],
                                !.jobId = Just(bullJob.id),
                                !.attemptNumber = bullJob.attemptsMade + 1],
                      <<>>, now)
        ELSE Throw(g, NotFound(n))

\* processJob(bullJob) up to its first await: the class is looked up by
\* name; if it is there an instance is constructed, given jobId and
\* attemptNumber, and performNow(...args) is called on it.
ProcessJob(f, bullJob) ==
    LET g == [f EXCEPT !.kind = "processJob", !.args = bullJob.args,
                       !.calledAt = now]
        n == bullJob.jobClassName
    IN  IF n \in DOMAIN jobRegistry
        THEN StartRun([g EXCEPT !.def = jobRegistry[n],
                                !.jobId = Just(bullJob.id),
                                !.attemptNumber = bullJob.attemptsMade + 1],
                      bullJob.args, now)
        ELSE Throw(g, NotFound(n))

\* (variant: every worker is subscribed to the default queue)
NewWorkerOfDefault(queueName, concurrency) ==
    [queueName |-> "default", concurrency |-> concurrency, state |-> "running"]

\* new Worker(queueName, processJob, { connection, concurrency }): the
\* worker starts Running.
NewWorker(queueName, concurrency) ==
    [queueName |-> queueName, concurrency |-> concurrency, state |-> "running"]

\* (variant: a worker started without a concurrency runs two at a time)
OptionConcurrencyTwo(options) == Nullish(options.concurrency, 2)

\* const { concurrency = 1 } = options
OptionConcurrency(options) == Nullish(options.concurrency, 1)

\* startWorker(queueName, options): the worker the map holds for the name,
\* else a new one, which the map then holds.
StartWorker(queueName, options) ==
    /\ IF queueName \in DOMAIN workers
       THEN /\ startCall' = [queueName |-> queueName,
                             concurrency |-> OptionConcurrency(options),
                             returned |-> workers[queueName]]
            /\ UNCHANGED <<workers, pool>>
       ELSE /\ Len(pool) < MaxWorkers
            /\ pool' = Append(pool, NewWorker(queueName,
                                              OptionConcurrency(options)))
            /\ workers' = (queueName :> (Len(pool) + 1)) @@ workers
            /\ startCall' = [queueName |-> queueName,
                             concurrency |-> OptionConcurrency(options),
                             returned |-> Len(pool) + 1]
    /\ UNCHANGED <<currentConfig, configFresh, configError, defaultVars, now,
                   calls, adapterVars, broker, jobClasses, jobRegistry,
                   registered, stopCall>>

\* The executions worker w has in flight: picked up, outcome not yet
\* reported to the broker.
Active(w) ==
    {c \in Calls : calls[c].kind = "processJob" /\ calls[c].worker = w}

\* (variant: an item that is being executed is still there to be taken)
TakenLeftWaiting(item) ==
    [item EXCEPT !.picked = @ + 1,
                 !.executions = IF item.jobClassName \in DOMAIN jobRegistry
                                THEN @ + 1 ELSE @]

\* The item once a worker has taken it: it is active, held by that worker
\* until the outcome of processJob is reported.
Taken(item) ==
    [item EXCEPT !.state = "active",
                 !.picked = @ + 1,
                 !.executions = IF item.jobClassName \in DOMAIN jobRegistry
                                THEN @ + 1 ELSE @]

\* A Running worker with a free slot takes a waiting item of its queue and
\* calls processJob on it.
Pickup(c, w, i) ==
    /\ calls[c].pc = "idle"
    /\ pool[w].state = "running"
    /\ Cardinality(Active(w)) < pool[w].concurrency
    /\ broker[i].state = "waiting"
    /\ broker[i].queueName = pool[w].queueName
    /\ broker' = [broker EXCEPT ![i] = Taken(@)]
    /\ calls' = [calls EXCEPT ![c] =
           ProcessJob([IdleFrame EXCEPT
                          !.worker = w, !.item = i,
                          !.pickedDuringStop = (stopCall.pc = "waiting")],
                      broker[i])]
    /\ UNCHANGED <<currentConfig, configFresh, configError, defaultVars, now,
                   adapterVars, jobClasses, workerVars>>

\* (variant: a failed attempt is not counted and the item is dropped)
ReportedDroppingFailures(item, f) ==
    IF f.pc = "returned"
    THEN [item EXCEPT !.state = "completed", !.returnvalue = f.returned]
    ELSE [item EXCEPT !.state = "completed"]

\* What the broker records when processJob has settled: completed with
\* the value returned, or a failed attempt, to be retried after the backoff
\* while attempts remain.
Reported(item, f) ==
    IF f.pc = "returned"
    THEN [item EXCEPT !.state = "completed", !.returnvalue = f.returned]
    ELSE LET made == item.attemptsMade + 1
         IN  [item EXCEPT !.attemptsMade = made,
                          !.failedReason = f.thrown,
                          !.state = IF made < item.attempts THEN "delayed"
                                                            ELSE "failed"]

\* processJob's promise has settled and the worker reports the outcome;
\* the slot is free again.
Report(c) ==
    /\ calls[c].kind = "processJob"
    /\ calls[c].pc \in {"returned", "threw"}
    /\ broker' = [broker EXCEPT ![calls[c].item] = Reported(@, calls[c])]
    /\ calls' = [calls EXCEPT ![c] = IdleFrame]
    /\ UNCHANGED <<currentConfig, configFresh, configError, defaultVars, now,
                   adapterVars, jobClasses, workerVars>>

\* The backoff (or the delay) of a delayed item has passed.
BackoffElapses(i) ==
    /\ broker[i].state = "delayed"
    /\ broker' = [broker EXCEPT ![i].state = "waiting"]
    /\ UNCHANGED <<currentConfig, configFresh, configError, defaultVars, now,
                   calls, adapterVars, jobClasses, workerVars>>

\* stopWorkers() up to its await: close() is called on every worker the map
\* holds.  A worker whose close was called takes no further item.
StopWorkers ==
    /\ stopCall.pc # "waiting"
    /\ LET ws == {workers[q] : q \in DOMAIN workers}
       IN  /\ pool' = [w \in 1..Len(pool) |->
                          IF w \in ws /\ pool[w].state = "running"
                          THEN [pool[w] EXCEPT !.state = "closing"]
                          ELSE pool[w]]
           /\ stopCall' = [pc |-> "waiting", closing |-> ws]
    /\ calls' = [c \in Calls |->
                    [calls[c] EXCEPT !.inFlightAtStop =
                                        (calls[c].kind = "processJob")]]
    /\ UNCHANGED <<currentConfig, configFresh, configError, defaultVars, now,
                   adapterVars, broker, jobClasses, jobRegistry, registered,
                   workers, startCall>>

\* (variant: close() resolves without waiting for the jobs in flight)
WorkerClosedAtOnce(w) ==
    /\ pool[w].state = "closing"
    /\ pool' = [pool EXCEPT ![w].state = "closed"]
    /\ UNCHANGED <<currentConfig, configFresh, configError, defaultVars, now,
                   calls, adapterVars, broker, jobClasses, jobRegistry,
                   registered, workers, startCall, stopCall>>

\* worker.close() resolves: once the worker has no execution in flight.
WorkerClosed(w) ==
    /\ pool[w].state = "closing"
    /\ Active(w) = {}
    /\ pool' = [pool EXCEPT ![w].state = "closed"]
    /\ UNCHANGED <<currentConfig, configFresh, configError, defaultVars, now,
                   calls, adapterVars, broker, jobClasses, jobRegistry,
                   registered, workers, startCall, stopCall>>

\* await Promise.all(closePromises) is over: workers.clear(), return.
StopWorkersReturns ==
    /\ stopCall.pc = "waiting"
    /\ \A w \in stopCall.closing : pool[w].state = "closed"
    /\ workers' = EmptyMap
    /\ stopCall' = [stopCall EXCEPT !.pc = "returned"]
    /\ UNCHANGED <<currentConfig, configFresh, configError, defaultVars, now,
                   calls, adapterVars, broker, jobClasses, jobRegistry,
                   registered, pool, startCall>>

QueueNames == {"default", "mailers"}

WorkerOptions == [concurrency : {Nothing, Just(2)}]

\* The worker process while it runs: it registers job classes and starts
\* the worker of the default queue; items arrive from the enqueueing
\* process, are executed (up to two at a time) and retried.
NextProcess ==
    \/ \E D \in {ProcessDataJob, RunnerProcessDataJob} : RegisterJob(D, Nothing)
    \/ \E D \in {ProcessDataJob, Ghost} : Produce(D, <<"x">>)
    \/ StartWorker("default", [concurrency |-> Just(2)])
    \/ \E c \in Calls, w \in 1..Len(pool), i \in 1..Len(broker) :
          Pickup(c, w, i)
    \/ \E c \in Calls :
          \/ PerformReturns(c)
          \/ Report(c)
    \/ \E i \in 1..Len(broker) : BackoffElapses(i)

SpecProcess == Init /\ [][NextProcess]_vars

\* The worker process from start to shutdown: workers are started and
\* stopped, in any interleaving, while items of job C arrive and are
\* executed one at a time.
NextWorker ==
    \/ RegisterJob(C, Nothing)
    \/ Produce(C, <<"zeon">>)
    \/ \E q \in QueueNames, o \in WorkerOptions : StartWorker(q, o)
    \/ \E w \in 1..Len(pool), i \in 1..Len(broker) : Pickup(1, w, i)
    \/ PerformReturns(1)
    \/ Report(1)
    \/ StopWorkers
    \/ \E w \in 1..Len(pool) : WorkerClosed(w)
    \/ StopWorkersReturns

SpecWorker == Init /\ [][NextWorker]_vars

\* The argument lists of the calls below; JSON has no undefined.
PayloadArgs == CallArgs \cup {<<"undefined", "x">>}

\* The attempts given to set() below.
AttemptOverrides ==
    {[NoOverrides EXCEPT !.attempts = Just(n)] : n \in {2, 0}}

\* The file the worker process registers SendEmailJob with.
SendEmailJobPath == Just("examples/send-email-job.js")

\* An application and a worker on one broker.  The application (call context
\* 1) makes one call: FailingJob on the class, or SendEmailJob through
\* set({attempts}), under the inline adapter or, once it is configured, the
\* redis adapter.  The worker process registers the two classes, starts the
\* workers of their queues and executes the item (call context 2), attempt
\* after attempt.
NextDurable ==
    \/ SetQueueAdapter("redis")
    \/ \E a \in PayloadArgs :
          \/ PerformLater(1, jobClasses["FailingJob"], a)
          \/ PerformIn(1, jobClasses["FailingJob"], 1, a)
          \/ \E o \in AttemptOverrides :
                \/ SetPerformLater(1, "SendEmailJob", o, a)
                \/ SetPerformAt(1, "SendEmailJob", o, 1, a)
    \/ RunStep(1)
    \/ AddResolves(1)
    \/ RegisterJob(jobClasses["FailingJob"], Nothing)
    \/ RegisterJob(jobClasses["SendEmailJob"], SendEmailJobPath)
    \/ \E q \in QueueNames : StartWorker(q, [concurrency |-> Nothing])
    \/ \E w \in 1..Len(pool), i \in 1..Len(broker) : Pickup(2, w, i)
    \/ RunStep(2)
    \/ Report(2)
    \/ \E i \in 1..Len(broker) : BackoffElapses(i)

SpecDurable == Init /\ [][NextDurable]_vars

\* FailingJob as the enqueueing process derives it with set(): two attempts,
\* on its own queue or on the mailers queue.
PoolJobs ==
    {ConfiguredJob(FailingJob, [NoOverrides EXCEPT !.attempts = Just(2),
                                                   !.queue = q]) :
        q \in {Nothing, Just("mailers")}}

\* The options each queue's worker is started with.
StartedWith ==
    ("default" :> [concurrency |-> Nothing]) @@
    ("mailers" :> [concurrency |-> Just(2)])

\* The worker process with two queues: FailingJob is registered, then the
\* worker of the default queue is started without a concurrency and the
\* worker of the mailers queue with concurrency 2; items of both queues
\* arrive, are executed in either slot and retried.
NextPool ==
    \/ RegisterJob(FailingJob, Nothing)
    \/ /\ registered # <<>>
       /\ \/ \E D \in PoolJobs : Produce(D, <<>>)
          \/ \E q \in DOMAIN StartedWith : StartWorker(q, StartedWith[q])
    \/ \E c \in Calls, w \in 1..Len(pool), i \in 1..Len(broker) :
          Pickup(c, w, i)
    \/ \E c \in Calls :
          \/ PerformRaises(c)
          \/ OnErrorReturns(c)
          \/ Report(c)
    \/ \E i \in 1..Len(broker) : BackoffElapses(i)

SpecPool == Init /\ [][NextPool]_vars

\* The worker process from start to shutdown, with work in flight: job C is
\* registered, workers are started (the default queue's with concurrency 2),
\* items of C arrive and are executed (each in the first free slot), and
\* stopWorkers() is called at any moment, also again after it has returned.
NextShutdown ==
    \/ (registered = <<>> /\ RegisterJob(C, Nothing))
    \/ /\ registered # <<>>
       /\ \/ Produce(C, <<>>)
          \/ StartWorker("default", [concurrency |-> Just(2)])
          \/ StartWorker("mailers", [concurrency |-> Nothing])
          \/ StopWorkers
    \/ \E c \in Calls, w \in 1..Len(pool), i \in 1..Len(broker) :
          /\ \A d \in Calls : d < c => calls[d].pc # "idle"
          /\ Pickup(c, w, i)
    \/ \E c \in Calls :
          \/ PerformReturns(c)
          \/ Report(c)
    \/ \E w \in 1..Len(pool) : WorkerClosed(w)
    \/ StopWorkersReturns

SpecShutdown == Init /\ [][NextShutdown]_vars

\* Job C as the enqueueing process enqueues it: on its own queue, or through
\* set({ queue }) on the mailers queue or on a queue no worker is started for.
LiveJobs ==
    {ConfiguredJob(C, [NoOverrides EXCEPT !.queue = q]) :
        q \in {Nothing, Just("mailers"), Just("high_priority")}}

\* Some worker takes item i in some slot.
Fetch(i) ==
    /\ i \in 1..Len(broker)
    /\ \E c \in Calls, w \in 1..Len(pool) : Pickup(c, w, i)

\* The worker process as it keeps running: C is registered, then the workers
\* of the default and the mailers queue are started and are never stopped;
\* items arrive on three queues and are executed.
NextLive ==
    \/ (registered = <<>> /\ RegisterJob(C, Nothing))
    \/ \E D \in LiveJobs : Produce(D, <<>>)
    \/ /\ registered # <<>>
       /\ \E q \in QueueNames : StartWorker(q, [concurrency |-> Nothing])
    \/ \E i \in 1..MaxItems : Fetch(i)
    \/ \E c \in Calls :
          \/ PerformReturns(c)
          \/ Report(c)

\* The broker is fair (a worker with a free slot is not forever denied an
\* item that waits in its queue) and the event loop is (a perform that can
\* return does, an outcome that can be reported is).
Fairness ==
    /\ \A i \in 1..MaxItems : WF_vars(Fetch(i))
    /\ \A c \in Calls : WF_vars(PerformReturns(c)) /\ WF_vars(Report(c))

SpecLive == Init /\ [][NextLive]_vars /\ Fairness

\* ------------------------------------------------- observing the frames

Frames == {calls[c] : c \in Calls}

\* performNow has been entered in this frame.
Ran(f) == f.runs > 0

Finished(f) == f.pc \in {"returned", "threw"}

\* The hooks invoked so far, in order.
HookSeq(f) == [i \in 1..Len(f.trace) |-> f.trace[i].hook]

Invoked(f, h) == \E i \in 1..Len(f.trace) : f.trace[i].hook = h

HookEnded(f, h, how) ==
    \E i \in 1..Len(f.trace) : f.trace[i].hook = h /\ f.trace[i].ended = how

\* What the (single) invocation of h was given, and what it ended with.
GivenTo(f, h) == {f.trace[i].arg : i \in {j \in 1..Len(f.trace) : f.trace[j].hook = h}}

EndedWith(f, h) ==
    {f.trace[i].value : i \in {j \in 1..Len(f.trace) : f.trace[j].hook = h}}

TimesInvoked(f, h) == Cardinality({i \in 1..Len(f.trace) : f.trace[i].hook = h})

\* Of a hook order, the hooks the class defines (perform always is).
DefinedOf(D, order) ==
    SelectSeq(order, LAMBDA h : h = "perform" \/ h \in D.hooks)

MustImplement(D) == D.name \o " must implement the perform() method"

\* ------------------------------------------------------------------ claims

\* C1: one performNow run invokes the defined hooks in exactly the order
\* beforePerform, perform, afterPerform when perform succeeds, and
\* beforePerform, perform, onError when perform raises; perform is invoked
\* once and is given exactly the arguments of the call, in order.
C1_HookOrder ==
    \A f \in Frames : Ran(f) /\ Finished(f) =>
        /\ HookEnded(f, "perform", "returned") =>
               HookSeq(f) = DefinedOf(f.def,
                               <<"beforePerform", "perform", "afterPerform">>)
        /\ HookEnded(f, "perform", "raised") =>
               HookSeq(f) = DefinedOf(f.def,
                               <<"beforePerform", "perform", "onError">>)
        /\ TimesInvoked(f, "perform") <= 1
        /\ GivenTo(f, "perform") \subseteq {f.args}

\* C2: when perform raises e, onError (if defined) is invoked with e and the
\* error that reaches the caller of performNow is e itself.
C2_OriginalErrorReachesCaller ==
    \A f \in Frames : Ran(f) /\ Finished(f) /\ HookEnded(f, "perform", "raised") =>
        /\ "onError" \in f.def.hooks => GivenTo(f, "onError") = EndedWith(f, "perform")
        /\ f.pc = "threw"
        /\ EndedWith(f, "perform") = {<<f.thrown>>}

\* C3: when beforePerform raises, the error propagates to the caller and
\* neither perform nor onError is invoked in that run.
C3_BeforeErrorSkipsPerformAndOnError ==
    \A f \in Frames : Ran(f) /\ HookEnded(f, "beforePerform", "raised") =>
        /\ ~Invoked(f, "perform")
        /\ ~Invoked(f, "onError")
        /\ f.pc = "threw"
        /\ EndedWith(f, "beforePerform") = {<<f.thrown>>}

\* C4: afterPerform is invoked only when perform completed without error and
\* onError only when perform raised, never both in one run; when afterPerform
\* raises, the caller receives that error and onError is not invoked.
C4_AfterAndOnErrorExclusive ==
    \A f \in Frames : Ran(f) =>
        /\ Invoked(f, "afterPerform") => HookEnded(f, "perform", "returned")
        /\ Invoked(f, "onError") => HookEnded(f, "perform", "raised")
        /\ ~(Invoked(f, "afterPerform") /\ Invoked(f, "onError"))
        /\ HookEnded(f, "afterPerform", "raised") =>
               /\ f.pc = "threw"
               /\ EndedWith(f, "afterPerform") = {<<f.thrown>>}

\* C5: when perform succeeds with value r and no hook raises, performNow
\* returns exactly r, and afterPerform (if defined) was called with r before
\* the return; this is so whichever optional hooks are defined.
C5_ReturnsPerformResult ==
    \A f \in Frames : Ran(f) /\ f.pc = "returned" =>
        /\ HookEnded(f, "perform", "returned")
        /\ EndedWith(f, "perform") = {f.returned}
        /\ "afterPerform" \in f.def.hooks =>
               /\ HookEnded(f, "afterPerform", "returned")
               /\ GivenTo(f, "afterPerform") = {f.returned}
        /\ \A h \in OptionalHooks \ f.def.hooks : ~Invoked(f, h)

C5_Witness ==
    \E f \in Frames :
        /\ f.kind = "performNow" /\ f.pc = "returned"
        /\ f.def.hooks = OptionalHooks
        /\ f.args = <<"x", "zeon">>
        /\ f.returned = <<"done", "x", "zeon">>

\* C7 (as stated): a job definition that does not override perform always
\* fails: the caller of performNow receives the 'must implement the perform()
\* method' error, no value is returned and afterPerform is never invoked.
C7_AbstractAlwaysRaisesMustImplement ==
    \A f \in Frames : Ran(f) /\ f.def.perform = "inherited" =>
        /\ f.pc # "returned"
        /\ ~Invoked(f, "afterPerform")
        /\ Finished(f) => f.thrown = MustImplement(f.def)

\* C7 (amended): performNow on a job definition that does not override
\* perform never returns a value and never invokes afterPerform; perform,
\* whenever it is reached, raises the 'must implement the perform() method'
\* error, which onError (if defined) is given; and the caller receives that
\* error unless beforePerform or onError itself raised, in which case the
\* caller receives the error of the hook that raised last.
C7_AbstractNeverReturns ==
    \A f \in Frames : Ran(f) /\ f.def.perform = "inherited" =>
        /\ f.pc # "returned"
        /\ ~Invoked(f, "afterPerform")
        /\ ~HookEnded(f, "perform", "returned")
        /\ HookEnded(f, "perform", "raised") =>
               /\ EndedWith(f, "perform") = {<<MustImplement(f.def)>>}
               /\ "onError" \in f.def.hooks =>
                      GivenTo(f, "onError") = {<<MustImplement(f.def)>>}
        /\ Finished(f) =>
               /\ f.pc = "threw"
               /\ f.thrown =
                     IF HookEnded(f, "onError", "raised")
                     THEN (CHOOSE v \in EndedWith(f, "onError") : TRUE)[1]
                     ELSE IF HookEnded(f, "beforePerform", "raised")
                     THEN (CHOOSE v \in EndedWith(f, "beforePerform") : TRUE)[1]
                     ELSE MustImplement(f.def)

C7_Witness ==
    \E f \in Frames :
        /\ f.def.perform = "inherited"
        /\ f.def.hooks = {"beforePerform", "onError"}
        /\ HookSeq(f) = <<"beforePerform", "perform", "onError">>
        /\ f.pc = "threw"
        /\ f.thrown = MustImplement(f.def)

\* C6: performNow can be called on the job class itself: the call constructs
\* an instance and executes the job in-process with its hooks, under either
\* adapter kind, and submits nothing to the broker.
C6_ClassPerformNowExecutes ==
    \A f \in Frames : f.kind = "classPerformNow" =>
        /\ Ran(f)
        /\ Invoked(f, "perform") \/ Invoked(f, "beforePerform")
        /\ f.adapter = "none" /\ f.submission = NoSubmission

\* C8: performLater(args) hands the adapter the configuration selects at the
\* moment of the call a request with attempts = the job's retryAttempts if
\* non-null, else config.defaultRetryAttempts, backoff = the job's
\* backoffDelay if non-null, else config.defaultBackoffDelay (both defaults
\* as they are at the call), delay 0 and the args unchanged.
C8_PerformLaterRequest ==
    [][\A c \in Calls :
          calls[c].pc = "idle" /\ calls'[c].kind = "performLater" =>
              LET f == calls'[c]
                  D == f.def
                  attempts == IF D.retryAttempts # Nothing
                              THEN D.retryAttempts[1]
                              ELSE currentConfig.defaultRetryAttempts
                  backoff == IF D.backoffDelay # Nothing
                             THEN D.backoffDelay[1]
                             ELSE currentConfig.defaultBackoffDelay
              IN  /\ f.adapter = currentConfig.queueAdapter
                  /\ f.options.attempts = attempts
                  /\ f.options.backoff = backoff
                  /\ f.options.args = f.args
                  /\ f.effDelay = 0
                  /\ f.adapter = "inline" =>
                         /\ f.runs = 1 /\ f.ranAt = now
                         /\ f.arguments = f.args
                  /\ f.adapter = "redis" =>
                         /\ f.runs = 0
                         /\ f.submission.attempts = attempts
                         /\ f.submission.backoffDelay = backoff
                         /\ f.submission.delay = 0
                         /\ f.submission.args = f.args]_vars

C8_Witness ==
    \E f \in Frames :
        /\ f.kind = "performLater" /\ f.def = C
        /\ f.adapter = "redis"
        /\ f.args = <<"x", "zeon">>
        /\ f.submission.attempts = 7 /\ f.submission.backoffDelay = 250

\* C9: on the inline adapter, performIn(delayMs, args) with delayMs > 0
\* starts no hook and no perform of the job before delayMs has passed since
\* the call, and then executes the job once, with the args unchanged.  Other
\* calls start and finish while the call is suspended (the witness).
C9_InlineDelayRespected ==
    \A f \in Frames : f.kind = "performIn" /\ f.adapter = "inline" /\ f.input > 0 =>
        /\ f.runs <= 1
        /\ now < f.calledAt + f.input => f.trace = <<>> /\ f.runs = 0
        /\ ~Ran(f) => f.pc = "sleeping" /\ f.trace = <<>>
        /\ Ran(f) =>
               /\ f.ranAt >= f.calledAt + f.input
               /\ f.arguments = f.args
               /\ GivenTo(f, "perform") \subseteq {f.args}
        /\ TimesInvoked(f, "perform") <= 1
        /\ Finished(f) => f.runs = 1

C9_Witness ==
    \E c, d \in Calls :
        /\ calls[c].kind = "performIn" /\ calls[c].input = 2
        /\ calls[c].pc = "sleeping"
        /\ calls[d].kind = "performIn" /\ calls[d].input = 1
        /\ calls[d].calledAt >= calls[c].calledAt
        /\ calls[d].pc = "returned"
        /\ calls[d].returned = <<"greeted", "x">>

\* C10: performAt(timestamp, args) gives the adapter the delay
\* max(0, timestamp - now): 0 for a timestamp at or before now, when the call
\* runs as performIn(0, args) does (at once on the inline adapter), and the
\* positive difference for a future timestamp.
C10_PerformAtDelay ==
    \A f \in Frames : f.kind = "performAt" =>
        LET d == IF f.input <= f.calledAt THEN 0 ELSE f.input - f.calledAt
        IN  /\ f.options.delay = <<d>>
            /\ f.effDelay = d
            /\ f.options.args = f.args
            /\ f.adapter = "redis" => f.submission.delay = d /\ f.runs = 0
            /\ f.adapter = "inline" /\ d = 0 =>
                   /\ f.runs = 1 /\ f.ranAt = f.calledAt
                   /\ f.arguments = f.args
            /\ f.adapter = "inline" /\ d > 0 =>
                   /\ f.runs = 0 => f.pc = "sleeping"
                   /\ f.runs > 0 => f.ranAt >= f.input

C10_Witness ==
    \E f \in Frames :
        /\ f.kind = "performAt" /\ f.calledAt = 2 /\ f.input = 1
        /\ f.adapter = "inline" /\ f.pc = "returned"

\* A call context enters a class-level enqueueing call in this step.
Enters(c) == calls[c].pc = "idle" /\ calls'[c].pc # "idle"

RetrySettings(D) ==
    [queue |-> D.queue, retryAttempts |-> D.retryAttempts,
     backoffDelay |-> D.backoffDelay]

\* C11: a call made through set(overrides) leaves the job definition's
\* queue, retryAttempts and backoffDelay as they were defined, and a
\* performLater made on the class itself, whatever scoped calls came before
\* or run beside it, is made with the definition's own queue and with
\* attempts and backoff resolved from the definition's own settings.
C11_SetLeavesDefinition ==
    [][\A c \in Calls : Enters(c) =>
          LET f == calls'[c]
              D == Defined(f.def.name)
          IN  /\ \A n \in DOMAIN jobClasses :
                    RetrySettings(jobClasses'[n]) = RetrySettings(Defined(n))
              /\ f.via = "class" /\ f.kind = "performLater" =>
                    /\ RetrySettings(f.def) = RetrySettings(D)
                    /\ f.options.attempts =
                           Nullish(D.retryAttempts,
                                   currentConfig.defaultRetryAttempts)
                    /\ f.options.backoff =
                           Nullish(D.backoffDelay,
                                   currentConfig.defaultBackoffDelay)
                    /\ f.adapter = "redis" =>
                           /\ f.submission.queueName = QueueNameOf(D)
                           /\ f.submission.attempts = f.options.attempts
                           /\ f.submission.backoffDelay = f.options.backoff]_vars

\* FailingJob.set({queue: 'high_priority', attempts: 10, backoff: 50})
\* .performLater() was accepted by the broker first, and the performLater on
\* FailingJob itself that the broker accepted after it went to 'default'
\* with attempts 3 and backoff 500.
C11_Witness ==
    /\ calls[1].via = "set" /\ calls[1].def.name = "FailingJob"
    /\ calls[1].overrides =
           [queue |-> Just("high_priority"), attempts |-> Just(10),
            backoff |-> Just(50)]
    /\ calls[1].returned = <<"bullmq job", "1">>
    /\ calls[2].via = "class" /\ calls[2].def.name = "FailingJob"
    /\ calls[2].returned = <<"bullmq job", "2">>
    /\ Len(broker) = 2
    /\ broker[1].queueName = "high_priority" /\ broker[1].attempts = 10
    /\ broker[2].queueName = "default" /\ broker[2].attempts = 3
    /\ broker[2].backoffDelay = 500

\* What a call through set(o) on definition D uses for one setting: the
\* override when it is supplied, else what the unscoped call would use.
Supplied(o, unscoped) == IF o = Nothing THEN unscoped ELSE o[1]

\* C12: an enqueue made through set({queue, attempts, backoff}) uses each
\* supplied override in place of the definition's value (the submission
\* goes to the overriding queue with the overriding attempts and backoff),
\* and a field that is not supplied is resolved as in the unscoped call:
\* the definition's value, else the configuration default.
C12_OverridesUsed ==
    [][\A c \in Calls : Enters(c) /\ calls'[c].via = "set" =>
          LET f == calls'[c]
              o == f.overrides
              D == Defined(f.def.name)
          IN  /\ f.options.attempts =
                     Supplied(o.attempts,
                              Nullish(D.retryAttempts,
                                      currentConfig.defaultRetryAttempts))
              /\ f.options.backoff =
                     Supplied(o.backoff,
                              Nullish(D.backoffDelay,
                                      currentConfig.defaultBackoffDelay))
              /\ f.adapter = "redis" =>
                     /\ f.submission.queueName =
                            Supplied(o.queue, QueueNameOf(D))
                     /\ f.submission.attempts = f.options.attempts
                     /\ f.submission.backoffDelay = f.options.backoff]_vars

\* C.set({queue: 'high_priority', backoff: 50}).performLater() after
\* config.defaultRetryAttempts = 7: the broker holds the item on
\* 'high_priority' with backoff 50 and, attempts not being supplied and C
\* defining none, attempts 7.
C12_Witness ==
    /\ calls[1].via = "set" /\ calls[1].def.name = "C"
    /\ calls[1].overrides =
           [queue |-> Just("high_priority"), attempts |-> Nothing,
            backoff |-> Just(50)]
    /\ calls[1].pc = "returned"
    /\ \E i \in 1..Len(broker) :
          /\ calls[1].returned = <<"bullmq job", broker[i].id>>
          /\ broker[i].queueName = "high_priority"
          /\ broker[i].attempts = 7
          /\ broker[i].backoffDelay = 50

\* The frames whose call went to the redis adapter.
RedisFrames == {f \in Frames : f.adapter = "redis"}

\* queue.add of call context c is acknowledged in this step.
Acknowledged(c) == calls[c].pc = "adding" /\ calls'[c].pc = "returned"

\* C17: every submission the redis adapter makes carries attempts equal to
\* the resolved attempt count and a backoff of kind 'fixed' whose delay is
\* the resolved backoff (the value of the class called on, else the
\* configuration default as it is at the call), and the broker holds it so;
\* FailingJob (retryAttempts 3, backoffDelay 500) enqueued on the class
\* itself is submitted with attempts 3 and backoff {fixed, 500}.
C17_SubmissionRetryPolicy ==
    [][\A c \in Calls :
          /\ Enters(c) /\ calls'[c].adapter = "redis" =>
                LET f == calls'[c] IN
                /\ f.submission.attempts =
                       Nullish(f.def.retryAttempts,
                               currentConfig.defaultRetryAttempts)
                /\ f.submission.backoffType = "fixed"
                /\ f.submission.backoffDelay =
                       Nullish(f.def.backoffDelay,
                               currentConfig.defaultBackoffDelay)
                /\ f.via = "class" /\ f.def.name = "FailingJob" =>
                       /\ f.submission.attempts = 3
                       /\ f.submission.backoffDelay = 500
          /\ Acknowledged(c) =>
                /\ Len(broker') = Len(broker) + 1
                /\ LET item == broker'[Len(broker')]
                       sub == calls[c].submission
                   IN  /\ item.attempts = sub.attempts
                       /\ item.backoffType = "fixed"
                       /\ item.backoffDelay = sub.backoffDelay]_vars

\* FailingJob.performLater() under the redis adapter was acknowledged and
\* the broker holds its item with attempts 3 and backoff {fixed, 500}.
C17_Witness ==
    \E f \in RedisFrames :
        /\ f.via = "class" /\ f.def.name = "FailingJob" /\ f.pc = "returned"
        /\ \E i \in 1..Len(broker) :
              /\ f.returned = <<"bullmq job", broker[i].id>>
              /\ broker[i].attempts = 3
              /\ broker[i].backoffType = "fixed"
              /\ broker[i].backoffDelay = 500

\* C18: a call that went to the redis adapter never executes the job in
\* the calling process: no performNow is entered and no hook or perform is
\* invoked in its frame; the broker holds exactly one item per acknowledged
\* call, and that call returned the broker's job handle, not a job result.
C18_RedisNeverExecutes ==
    /\ \A f \in RedisFrames :
          /\ f.runs = 0 /\ f.trace = <<>> /\ f.result = <<>>
          /\ f.pc \in {"adding", "returned", "threw"}
          /\ f.pc = "returned" =>
                /\ Len(f.returned) = 2 /\ f.returned[1] = "bullmq job"
                /\ Cardinality({i \in 1..Len(broker) :
                                   broker[i].id = f.returned[2]}) = 1
                /\ \A i \in 1..Len(broker) :
                      broker[i].id = f.returned[2] =>
                          /\ broker[i].jobClassName = f.def.name
                          /\ broker[i].args = f.args
    /\ Len(broker) = Cardinality({c \in Calls :
                          calls[c].adapter = "redis" /\ calls[c].pc = "returned"})

\* C.performIn(2, 'x', 'zeon') under the redis adapter has returned the
\* broker's job "1"; the broker holds one item and C's perform never ran.
C18_Witness ==
    \E f \in RedisFrames :
        /\ f.kind = "performIn" /\ f.def.name = "C" /\ f.input = 2
        /\ f.args = <<"x", "zeon">>
        /\ f.returned = <<"bullmq job", "1">>
        /\ Len(broker) = 1 /\ broker[1].delay = 2
        /\ f.runs = 0

\* C19: in every submission the redis adapter makes the delay is a
\* non-negative integer, for performLater, performIn (whatever its delayMs)
\* and performAt.
C19_DelayNonNegative ==
    \A f \in RedisFrames : f.submission.delay >= 0

\* C20: in every submission the redis adapter makes the attempts value is
\* at least 1, whatever was assigned to the job's retryAttempts, given to
\* set({attempts}) or assigned to config.defaultRetryAttempts.
C20_AttemptsPositive ==
    \A f \in RedisFrames : f.submission.attempts >= 1

\* The class most recently given to registerJob under name n.
LatestNamed(n) ==
    LET is == {i \in 1..Len(registered) : registered[i].name = n}
    IN  registered[CHOOSE i \in is : \A j \in is : j <= i]

\* Call context c is given an item by a worker in this step.
PicksUp(c) == calls[c].pc = "idle" /\ calls'[c].kind = "processJob"

\* The outcome of the execution in call context c is reported in this step.
Reports(c) == calls[c].kind = "processJob" /\ calls'[c].pc = "idle"

\* C13: registering a class under a name that is already registered
\* overwrites the entry: after any sequence of registerJob calls the
\* registry holds exactly the registered names, each mapped to the class
\* most recently registered under it, and an item the worker takes is
\* executed with the class that is then the latest of its name.
C13_LatestRegistration ==
    [][/\ DOMAIN jobRegistry' =
              {registered'[i].name : i \in 1..Len(registered')}
       /\ \A n \in DOMAIN jobRegistry' : jobRegistry'[n] = LatestNamed(n)'
       /\ \A c \in Calls :
             PicksUp(c) /\ calls'[c].runs > 0 =>
                 LET n == broker[calls'[c].item].jobClassName
                 IN  /\ calls'[c].def = LatestNamed(n)
                     /\ calls'[c].def.name = n]_vars

\* registerJob(ProcessDataJob) of the usage example, then registerJob of the
\* worker runner's ProcessDataJob; a ProcessDataJob item enqueued with 'x'
\* was then executed by the runner's class, whose perform returns without
\* the data.
C13_Witness ==
    /\ registered = <<ProcessDataJob, RunnerProcessDataJob>>
    /\ \E i \in 1..Len(broker) :
          /\ broker[i].jobClassName = "ProcessDataJob"
          /\ broker[i].args = <<"x">>
          /\ broker[i].state = "completed"
          /\ broker[i].returnvalue = <<"processed">>

\* C14: when a worker takes an item whose job class name is not in the
\* registry, processJob raises the not-found error without constructing a
\* job or running any hook; the attempt is reported to the broker as a
\* failed one (to be retried after the backoff while attempts remain, else
\* failed for good); the worker stays Running and keeps its free slot for
\* the next item.
C14_UnregisteredFailsAttempt ==
    [][\A c \in Calls :
          /\ PicksUp(c) /\ broker[calls'[c].item].jobClassName
                                \notin DOMAIN jobRegistry =>
                LET f == calls'[c] IN
                /\ f.pc = "threw"
                /\ f.thrown = NotFound(broker[f.item].jobClassName)
                /\ f.runs = 0 /\ f.trace = <<>> /\ f.def = NoJob
                /\ pool' = pool
          /\ Reports(c) /\ calls[c].runs = 0 =>
                LET i == calls[c].item
                    w == calls[c].worker
                IN  /\ broker'[i].attemptsMade = broker[i].attemptsMade + 1
                    /\ broker'[i].failedReason = calls[c].thrown
                    /\ broker'[i].state =
                           IF broker'[i].attemptsMade < broker[i].attempts
                           THEN "delayed" ELSE "failed"
                    /\ \A j \in 1..Len(broker) : j # i =>
                           broker'[j] = broker[j]
                    /\ pool'[w].state = "running"
                    /\ c \notin Active(w)']_vars

\* A Ghost item (attempts 2) was taken twice, never found in the registry,
\* and has failed for good; the ProcessDataJob item enqueued after it has
\* been completed by the same worker, which is still Running.
C14_Witness ==
    /\ Len(broker) = 2
    /\ broker[1].jobClassName = "Ghost" /\ broker[1].state = "failed"
    /\ broker[1].attemptsMade = 2
    /\ broker[1].failedReason = NotFound("Ghost")
    /\ broker[2].jobClassName = "ProcessDataJob"
    /\ broker[2].state = "completed"
    /\ Len(pool) = 1 /\ pool[1].state = "running"

\* The workers that exist: constructed and not closed.
Existing == {w \in 1..Len(pool) : pool[w].state # "closed"}

\* C15: at every moment at most one worker exists per queue name, and the
\* worker a startWorker(q) call returned is a worker of queue q: a call
\* for a name that has a Running worker returns that one and constructs no
\* second one.
C15_OneWorkerPerQueue ==
    /\ \A w1, w2 \in Existing :
          pool[w1].queueName = pool[w2].queueName => w1 = w2
    /\ startCall.returned # 0 =>
          pool[startCall.returned].queueName = startCall.queueName

\* C16: when stopWorkers() is called while a job is being executed, the
\* call does not return before that execution has ended and its outcome
\* has been reported; while the call is in progress no worker takes a new
\* item; and an execution in flight is never cut short (its worker is not
\* closed under it).
C16_StopWaitsForInFlight ==
    /\ stopCall.pc = "returned" =>
          \A c \in Calls : ~calls[c].inFlightAtStop
    /\ \A c \in Calls : ~calls[c].pickedDuringStop
    /\ \A c \in Calls : calls[c].kind = "processJob" =>
          pool[calls[c].worker].state # "closed"

\* ------------------------------------------------------- closing the adapters

\* Every Queue constructed so far: <<queue name, index>>.
AllHandles == UNION {{<<q, i>> : i \in DOMAIN handles[q]} : q \in DOMAIN handles}

\* Close call k returns in this step.
CloseReturning(k) ==
    closeCalls[k].pc = "waiting" /\ closeCalls'[k].pc = "returned"

\* C21: a closeAdapters() or RedisAdapter.close() call returns only when the
\* release of every Queue the cache held when it was called has completed;
\* and when it returns without an enqueue having run while it waited, the
\* cache is empty and every Queue constructed so far is closed.
C21_CloseReleasesEveryHandle ==
    [][\A k \in DOMAIN closeCalls : CloseReturning(k) =>
          /\ \A h \in closeCalls[k].cached :
                handles[h[1]][h[2]].state = "closed"
          /\ ~closeCalls[k].raced =>
                /\ queues' = EmptyMap
                /\ \A h \in AllHandles : handles'[h[1]][h[2]].state = "closed"]_vars

\* The close() or closeAdapters() call made last has returned.
LatestCloseReturned ==
    closeCalls # <<>> /\ closeCalls[Len(closeCalls)].pc = "returned"

\* The Queue the redis enqueue of call context c uses, after the step.
HandleUsed(c) == handles'[calls'[c].submission.queueName][calls'[c].handle]

\* C22: a redis enqueue made after the latest close() or closeAdapters()
\* call has returned goes through an open Queue that is cached under its
\* queue name and that none of the returned close calls has closed; when the
\* enqueue constructs the Queue, it is connected with the settings current
\* then.
C22_EnqueueAfterCloseIsFresh ==
    [][\A c \in Calls :
          Enters(c) /\ calls'[c].adapter = "redis" /\ LatestCloseReturned =>
              /\ HandleUsed(c).state = "open"
              /\ queues'[calls'[c].submission.queueName] = calls'[c].handle
              /\ \A k \in DOMAIN closeCalls :
                    closeCalls[k].pc = "returned" =>
                        <<calls'[c].submission.queueName, calls'[c].handle>>
                            \notin closeCalls[k].closing
              /\ handles' # handles =>
                    HandleUsed(c).connection = currentConfig.redis]_vars

\* ------------------------------------------------------------- getAdapter

\* C23: the adapter a call goes through is of the kind the configuration
\* names at the call.  It is the instance that is cached for the kind if
\* there is one, and else one that did not exist before, which is cached
\* from then on; the cached instance of the other kind stays as it is, and
\* a cached instance is dropped only by closeAdapters().
C23_OneInstancePerKind ==
    [][/\ \A c \in Calls : Enters(c) =>
             /\ calls'[c].adapter = currentConfig.queueAdapter
             /\ CachedAdapter(calls'[c].adapter) # 0 =>
                    calls'[c].instance = CachedAdapter(calls'[c].adapter)
             /\ CachedAdapter(calls'[c].adapter) = 0 =>
                    calls'[c].instance > instances[calls'[c].adapter]
             /\ calls'[c].adapter = "inline" =>
                    inlineAdapter' = calls'[c].instance
                    /\ redisAdapter' = redisAdapter
             /\ calls'[c].adapter = "redis" =>
                    redisAdapter' = calls'[c].instance
                    /\ inlineAdapter' = inlineAdapter
       /\ \A kind \in ADAPTER_TYPES :
             CachedAdapter(kind) # 0 /\ CachedAdapter(kind)' # CachedAdapter(kind)
                 => CachedAdapter(kind)' = 0 /\ Len(closeCalls') > Len(closeCalls)
      ]_vars

\* After a closeAdapters() both adapters were constructed anew, and a call
\* has gone through the second inline adapter.
C23_Witness ==
    /\ inlineAdapter = 2
    /\ redisAdapter = 2
    /\ calls[1].adapter = "inline"
    /\ calls[1].instance = 2
    /\ broker # <<>>

\* C24: the Queue a redis enqueue goes through is connected with the host,
\* port and password the configuration holds at the time of that enqueue,
\* also when the queue name was enqueued to before the settings changed.
C24_ConnectionCurrentAtEnqueue ==
    [][\A c \in Calls : Enters(c) /\ calls'[c].adapter = "redis" =>
          HandleUsed(c).connection = currentConfig.redis]_vars

\* ------------------------------------------------------------ configuration

\* C25: an assignment of an adapter kind other than 'inline' and 'redis'
\* throws and leaves the configuration as it was; so the configured kind is
\* always one of the two, and no call ever fails in getAdapter() with
\* 'Unknown adapter type'.
C25_AdapterKindAlwaysValid ==
    /\ [](/\ currentConfig.queueAdapter \in ADAPTER_TYPES
          /\ \A f \in Frames : f.thrown # "Unknown adapter type")
    /\ [][configError' # "" => currentConfig' = currentConfig]_vars

\* 'sidekiq' was assigned after 'redis', and a call went through redis.
C25_Witness ==
    /\ configError = "Unknown adapter"
    /\ currentConfig.queueAdapter = "redis"
    /\ calls[1].adapter = "redis"
    /\ calls[1].pc = "returned"

\* C26: after reset(), whatever was written before, the adapter kind is
\* inline, defaultRetryAttempts is 3 and defaultBackoffDelay is 1000; and a
\* performLater made then goes through the inline adapter, with 3 attempts
\* and a backoff of 1000 unless the job class defines its own.
C26_ResetRestoresDefaults ==
    /\ [](configFresh =>
            /\ currentConfig.queueAdapter = "inline"
            /\ currentConfig.defaultRetryAttempts = 3
            /\ currentConfig.defaultBackoffDelay = 1000)
    /\ [][\A c \in Calls :
            Enters(c) /\ configFresh /\ calls'[c].kind = "performLater" =>
                /\ calls'[c].adapter = "inline"
                /\ Ran(calls'[c])
                /\ calls'[c].options.attempts =
                       Nullish(calls'[c].def.retryAttempts, 3)
                /\ calls'[c].options.backoff =
                       Nullish(calls'[c].def.backoffDelay, 1000)]_vars

\* reset() was called when every setting had been written, and C was then
\* enqueued.
C26_Witness ==
    /\ configFresh
    /\ broker # <<>>
    /\ calls[1].kind = "performLater"
    /\ calls[1].def.name = "C"
    /\ calls[1].adapter = "inline"
    /\ calls[1].options.attempts = 3

\* ------------------------------------------------------- the durable path

\* The execution in call context c ends in this step with performNow having
\* raised, and is reported.
ReportsFailure(c) == Reports(c) /\ calls[c].pc = "threw" /\ Ran(calls[c])

\* C27: when performNow raises in an attempt, the broker records a failed
\* attempt with the error, and the item is delayed by its fixed backoff and
\* attempted again if attempts remain, and failed for good otherwise; if the
\* class defines onError, the hook was invoked in that attempt.  An item
\* submitted with attempts = N is executed at most N times, and an item
\* whose attempt succeeded is never taken again.
C27_RetryUntilAttemptsExhausted ==
    /\ [](\A i \in 1..Len(broker) : broker[i].executions <= broker[i].attempts)
    /\ [][/\ \A c \in Calls : ReportsFailure(c) =>
               LET i == calls[c].item
                   made == broker[i].attemptsMade + 1
               IN  /\ broker'[i].attemptsMade = made
                   /\ broker'[i].failedReason = calls[c].thrown
                   /\ broker'[i].backoffType = "fixed"
                   /\ broker'[i].state =
                          IF made < broker[i].attempts THEN "delayed"
                                                       ELSE "failed"
                   /\ "onError" \in calls[c].def.hooks =>
                          Invoked(calls[c], "onError")
          /\ \A i \in 1..Len(broker) :
               broker[i].state \in {"completed", "failed"} =>
                   broker'[i] = broker[i]]_vars

\* C28: every attempt the worker makes runs on a job instance of its own,
\* whose attemptNumber is the number of that attempt for the item (1 for the
\* first, k for the k-th) and whose jobId is the id the broker gave the
\* item, both already set when the first hook is invoked; an instance that
\* the inline path or performNow executes has attemptNumber 1 and jobId
\* null.
C28_AttemptNumberAndJobId ==
    /\ [](\A c \in Calls : Ran(calls[c]) =>
            IF calls[c].kind = "processJob"
            THEN /\ calls[c].attemptNumber = broker[calls[c].item].picked
                 /\ calls[c].jobId = Just(broker[calls[c].item].id)
            ELSE /\ calls[c].attemptNumber = 1
                 /\ calls[c].jobId = Nothing)
    /\ [][\A c \in Calls : PicksUp(c) /\ Ran(calls'[c]) =>
            /\ calls'[c].runs = 1
            /\ Len(calls'[c].trace) = 1
            /\ calls'[c].trace[1].ended = "pending"
            /\ calls'[c].result = <<>>
            /\ calls'[c].error = ""
            /\ calls'[c].attemptNumber = broker[calls'[c].item].attemptsMade + 1
         ]_vars

\* The second attempt of a SendEmailJob item is at its beforePerform.
C28_Witness ==
    /\ calls[2].kind = "processJob"
    /\ calls[2].pc = "beforePerform"
    /\ calls[2].attemptNumber = 2
    /\ calls[2].jobId = Just("1")
    /\ broker[1].attemptsMade = 1

\* The executions the worker has called performNow in.
Executions == {f \in Frames : f.kind = "processJob" /\ Ran(f)}

\* C30 (as claimed): the item's job type name is the name of the class that
\* was enqueued, the worker executes the class of that name, and the
\* argument list performNow and perform are given equals, in order and
\* value, the list given to performLater / performIn / performAt.
C30_PayloadRoundTrip ==
    /\ \A i \in 1..Len(broker) : broker[i].jobClassName = calls[1].def.name
    /\ \A f \in Executions :
          /\ f.def.name = calls[1].def.name
          /\ f.arguments = calls[1].args
          /\ GivenTo(f, "perform") \subseteq {calls[1].args}

\* The list b is the list a as JSON carries it: the same length and order,
\* every value the same except undefined, which arrives as null.
CarriedAs(a, b) ==
    /\ Len(b) = Len(a)
    /\ \A i \in 1..Len(a) :
          b[i] = (IF a[i] = "undefined" THEN "null" ELSE a[i])

\* C30 (amended): the job type name round-trips unchanged, and the argument
\* list arrives as JSON carries it: unchanged when every argument is a JSON
\* value, and with null in the place of every undefined argument.
C30_PayloadRoundTripJson ==
    /\ \A i \in 1..Len(broker) : broker[i].jobClassName = calls[1].def.name
    /\ \A f \in Executions :
          /\ f.def.name = calls[1].def.name
          /\ CarriedAs(calls[1].args, f.arguments)
          /\ \A b \in GivenTo(f, "perform") : CarriedAs(calls[1].args, b)

\* perform of SendEmailJob has been invoked by the worker with the two
\* arguments given to set(...).performAt(date, 'x', 'zeon').
C30_Witness ==
    /\ calls[1].kind = "performAt"
    /\ calls[1].args = <<"x", "zeon">>
    /\ calls[2].kind = "processJob"
    /\ calls[2].def.name = "SendEmailJob"
    /\ GivenTo(calls[2], "perform") = {<<"x", "zeon">>}

\* ---------------------------------------------------------- the inline path

\* The class-level calls that went through the inline adapter.
InlineFrames ==
    {f \in Frames : f.adapter = "inline" /\
                    f.kind \in {"performLater", "performIn", "performAt"}}

\* The errors raised in frame f, by perform or by a hook.
Raised(f) ==
    {f.trace[i].value : i \in {j \in 1..Len(f.trace) : f.trace[j].ended = "raised"}}

\* C29: a performLater / performIn / performAt call on the inline adapter
\* executes the job exactly once, whatever attempts and backoff it resolved:
\* performNow is entered at most once (once when the call has ended) and
\* perform is invoked at most once; and an error that perform or a hook
\* raised is the error the caller of the call receives.
C29_InlineExecutesOnce ==
    \A f \in InlineFrames :
        /\ f.runs <= 1
        /\ TimesInvoked(f, "perform") <= 1
        /\ f.submission = NoSubmission
        /\ Finished(f) =>
               /\ f.runs = 1
               /\ \A e \in Raised(f) : f.pc = "threw" /\ e = <<f.thrown>>

\* --------------------------------------------------------- the worker pool

\* The executions in flight for item i.
Attempts(i) ==
    {c \in Calls : calls[c].kind = "processJob" /\ calls[c].item = i}

\* Worker w takes item i in some slot.
Takes(w, i) == \E c \in Calls : Pickup(c, w, i)

\* C31: at every moment a worker executes at most as many items as the
\* concurrency it was started with (1 when none was given), all of them
\* items of its own queue; and whether a worker can take an item depends on
\* that worker alone: a Running worker below its concurrency takes a waiting
\* item of its queue whatever the workers of other queues are executing.
C31_ConcurrencyBound ==
    \A w \in 1..Len(pool) :
        LET q == pool[w].queueName
            limit == IF StartedWith[q].concurrency = Nothing THEN 1
                     ELSE StartedWith[q].concurrency[1]
        IN  /\ Cardinality(Active(w)) <= limit
            /\ \A c \in Active(w) : broker[calls[c].item].queueName = q
            /\ \A i \in 1..Len(broker) :
                  (/\ pool[w].state = "running"
                   /\ Cardinality(Active(w)) < limit
                   /\ broker[i].state = "waiting"
                   /\ broker[i].queueName = q
                   /\ \E c \in Calls : calls[c].pc = "idle")
                  => ENABLED Takes(w, i)

\* The worker of the default queue (concurrency 1) and the worker of the
\* mailers queue are each executing an item at the same moment.
C31_Witness ==
    \E w1, w2 \in 1..Len(pool) :
        /\ pool[w1].queueName = "default" /\ pool[w1].concurrency = 1
        /\ pool[w2].queueName = "mailers"
        /\ \E c \in Active(w1) : calls[c].pc = "perform"
        /\ \E c \in Active(w2) : calls[c].pc = "perform"

StateRank(state) ==
    CASE state = "running" -> 1
      [] state = "closing" -> 2
      [] state = "closed" -> 3

\* C33: a worker starts Running and its state only ever advances, to
\* Draining and from there to Stopped; a worker that is Draining or Stopped
\* takes no item; and a worker becomes Stopped only when none of its
\* executions is in flight, so a Stopped worker has none.
C33_WorkerStateAdvances ==
    /\ [](\A w \in 1..Len(pool) : pool[w].state = "closed" => Active(w) = {})
    /\ [][/\ Len(pool') >= Len(pool)
          /\ \A w \in 1..Len(pool') :
               IF w \in 1..Len(pool)
               THEN /\ StateRank(pool'[w].state) >= StateRank(pool[w].state)
                    /\ StateRank(pool'[w].state) <= StateRank(pool[w].state) + 1
                    /\ pool'[w].state = "closed" /\ pool[w].state # "closed"
                          => Active(w) = {}
               ELSE pool'[w].state = "running"
          /\ \A c \in Calls : PicksUp(c) =>
               /\ pool[calls'[c].worker].state = "running"
               /\ pool'[calls'[c].worker].state = "running"
         ]_vars

\* A worker is Draining with an execution in flight that began before
\* stopWorkers() was called, while another item of its queue waits.
C33_Witness ==
    \E c \in Calls, i \in 1..Len(broker) :
        /\ calls[c].kind = "processJob" /\ calls[c].inFlightAtStop
        /\ pool[calls[c].worker].state = "closing"
        /\ stopCall.pc = "waiting"
        /\ broker[i].state = "waiting"
        /\ broker[i].queueName = pool[calls[c].worker].queueName

\* ---------------------------------------------------------- the Queue cache

\* Call context c enters a redis enqueue in this step.
EntersRedis(c) == Enters(c) /\ calls'[c].adapter = "redis"

\* C34: the cache maps a queue name to one Queue.  An enqueue to a name the
\* cache holds goes through the cached Queue and constructs none; an enqueue
\* to a name it does not hold constructs one Queue, which is cached from
\* then on; and a cached Queue is dropped or replaced only when a close()
\* returns.  So two enqueues to one queue name between which no close()
\* returned use the same Queue, whichever call contexts and RedisAdapter
\* instances they come from.
C34_OneHandlePerName ==
    [][/\ \A c \in Calls : EntersRedis(c) =>
             LET q == calls'[c].submission.queueName
             IN  /\ queues'[q] = calls'[c].handle
                 /\ IF q \in DOMAIN queues
                    THEN /\ calls'[c].handle = queues[q]
                         /\ handles' = handles
                         /\ queues' = queues
                    ELSE /\ Len(handles'[q]) = Len(HandlesNamed(q)) + 1
                         /\ calls'[c].handle = Len(handles'[q])
       /\ \A q \in DOMAIN queues :
             (q \notin DOMAIN queues' \/ queues'[q] # queues[q]) =>
                 \E k \in DOMAIN closeCalls : CloseReturning(k)
       /\ \A q \in DOMAIN handles' :
             Len(handles'[q]) # Len(HandlesNamed(q)) =>
                 \E c \in Calls : EntersRedis(c) /\ q \notin DOMAIN queues
      ]_vars

\* Two enqueues to the default queue are in progress at the same moment, one
\* through the adapter of getAdapter() and one through a RedisAdapter of the
\* application's own; no close() was ever called and both go through the
\* one Queue.
C34_Witness ==
    /\ closeCalls = <<>>
    /\ calls[1].pc = "adding" /\ calls[2].pc = "adding"
    /\ calls[1].kind = "performLater" /\ calls[2].kind = "enqueue"
    /\ calls[1].submission.queueName = "default"
    /\ calls[2].submission.queueName = "default"
    /\ calls[1].instance # calls[2].instance
    /\ calls[1].handle = calls[2].handle
    /\ Len(handles["default"]) = 1

\* ------------------------------------------------- startWorker, stopWorkers

\* The stopWorkers() call returns in this step.
StopReturning == stopCall.pc = "waiting" /\ stopCall'.pc = "returned"

\* C35: every worker that was started and is not Stopped is held by the
\* workers map, and when a stopWorkers() call returns no worker is Running,
\* also when startWorker was called for another queue name while the call
\* was waiting.
C35_EveryWorkerTracked ==
    /\ [](\A w \in Existing : \E q \in DOMAIN workers : workers[q] = w)
    /\ [][StopReturning =>
            \A w \in 1..Len(pool') : pool'[w].state # "running"]_vars

\* C36: the worker a startWorker(q) call returns is Running when the call
\* returns, also when the call is made while stopWorkers() is waiting or
\* after it has returned.
C36_StartReturnsRunning ==
    [][startCall' # startCall =>
          pool'[startCall'.returned].state = "running"]_vars

\* ------------------------------------------------- enqueueing during close

\* C37: every open Queue is in the cache, and no enqueue goes through a
\* Queue whose close() has been called, also when the enqueue runs while
\* close() or closeAdapters() is waiting for the Queues to close.
C37_NoEnqueueThroughClosingHandle ==
    /\ [](\A h \in AllHandles :
            handles[h[1]][h[2]].state = "open" => h \in Cached)
    /\ [][\A c \in Calls : EntersRedis(c) => HandleUsed(c).state = "open"]_vars

\* ------------------------------------------------- items enqueued via set

\* What identifies the job in the job data: the class name and its path.
Identity(submission) ==
    [jobClassName |-> submission.jobClassName,
     jobClassPath |-> submission.jobClassPath,
     name |-> submission.name]

\* C38: a redis enqueue made through set(overrides) on a job class writes
\* the name and the source path of that class, exactly what an enqueue on
\* the class itself would write; the worker executes the item with the
\* class registered under that name, which is the class as it was defined
\* (a class that set() derived is never registered), so with the
\* original's hooks, perform and static settings.
C38_SetItemsRunAsOriginal ==
    /\ [](\A k \in 1..Len(registered) :
            [registered[k] EXCEPT !.filePath = Nothing]
                = Defined(registered[k].name))
    /\ [][/\ \A c \in Calls : EntersRedis(c) /\ calls'[c].via = "set" =>
               LET n == calls'[c].submission.jobClassName
               IN  /\ n \in DOMAIN jobClasses
                   /\ calls'[c].def =
                          ConfiguredJob(jobClasses[n], calls'[c].overrides)
                   /\ calls'[c].submission.jobClassPath =
                          PathOrNull(jobClasses[n].filePath)
                   /\ Identity(calls'[c].submission) =
                          Identity(Submission(jobClasses[n],
                                              calls'[c].options))
          /\ \A c \in Calls : PicksUp(c) /\ calls[1].via = "set" =>
               LET n == broker[calls'[c].item].jobClassName
               IN  /\ n \in DOMAIN jobClasses
                   /\ n \in DOMAIN jobRegistry =>
                          /\ calls'[c].def = jobRegistry[n]
                          /\ [calls'[c].def EXCEPT !.filePath = Nothing]
                                 = Defined(n)
                          /\ Ran(calls'[c])
                   /\ n \notin DOMAIN jobRegistry =>
                          calls'[c].thrown = NotFound(n)
         ]_vars

\* SendEmailJob was registered with its file and then enqueued through
\* set({ attempts: 2 }); the worker is executing the item with the
\* registered class, whose own retryAttempts is 5.
C38_Witness ==
    /\ calls[1].via = "set" /\ calls[1].pc = "returned"
    /\ calls[1].def.retryAttempts = Just(2)
    /\ Len(broker) = 1
    /\ broker[1].jobClassName = "SendEmailJob"
    /\ broker[1].jobClassPath = SendEmailJobPath
    /\ broker[1].attempts = 2
    /\ calls[2].kind = "processJob" /\ calls[2].pc = "perform"
    /\ calls[2].def.name = "SendEmailJob"
    /\ calls[2].def.retryAttempts = Just(5)

\* ------------------------------------------------------------------ progress

\* The worker that startWorker(q) put into the map is Running.
HasRunningWorker(q) ==
    q \in DOMAIN workers /\ pool[workers[q]].state = "running"

\* C39: once an item is in the broker with its class registered and the
\* worker of its queue Running (workers are never stopped here, so it stays
\* Running), the item is eventually executed, and completed; and an item
\* is never taken unless a worker was started for its queue, so an item
\* of a queue that no worker is started for is never executed.
C39_EnqueuedItemsEventuallyRun ==
    /\ \A i \in 1..MaxItems :
          (/\ i \in 1..Len(broker)
           /\ broker[i].jobClassName \in DOMAIN jobRegistry
           /\ HasRunningWorker(broker[i].queueName))
          ~> (/\ i \in 1..Len(broker)
              /\ broker[i].executions >= 1
              /\ broker[i].state = "completed")
    /\ [](\A i \in 1..Len(broker) :
            (\A w \in 1..Len(pool) : pool[w].queueName # broker[i].queueName)
                => /\ broker[i].picked = 0
                   /\ broker[i].executions = 0
                   /\ broker[i].state = "waiting")

\* An item of the mailers queue has been executed and completed, while an
\* item of the high_priority queue, which has no worker, still waits.
C39_Witness ==
    \E i, j \in 1..Len(broker) :
        /\ broker[i].queueName = "mailers" /\ broker[i].state = "completed"
        /\ broker[i].executions = 1
        /\ HasRunningWorker("mailers")
        /\ broker[j].queueName = "high_priority"
        /\ broker[j].state = "waiting" /\ broker[j].picked = 0

\* ------------------------------------------------- the connection settings

\* C40: after reset() the connection settings are the built-in ones (host
\* localhost, port 6379, no password), whatever was assigned to config.redis
\* or written into the object it returns before; and the built-in settings
\* are never changed.
C40_ResetRestoresConnection ==
    /\ configFresh => currentConfig.redis = defaultConfig.redis
    /\ defaultRedis = defaultConfig.redis

====
